---- MODULE Spec2Model ----
(***************************************************************************)
(* A model of the dependency engine of the repository analyser            *)
(* (src/src/analyzers/dependency_analyzer.py): the module index, the      *)
(* import resolver, the dependency graph builder and the graph analytics. *)
(*                                                                         *)
(* Strings are sequences of one-character strings, so that the code's     *)
(* character-level operations (counting leading dots, lstrip, split,      *)
(* os.path.dirname/basename/splitext/join, comparison by code point) are  *)
(* computed the way the code computes them.                               *)
(***************************************************************************)
EXTENDS Integers, Sequences, FiniteSets, TLC

\* Python's None where a string is expected: the result of an unresolved
\* import, a missing field. No string of the model has this shape.
NoneVal == <<"None">>

\* None as a language tag.
NoLanguage == "None"

\* An adapter's content when there is none: the adapters only test a
\* content for truth, so None (the file could not be read) and the empty
\* text are both the empty list of lines.
NoContent == <<>>

----------------------------------------------------------------------------
(* String primitives                                                       *)

\* str[i:] for 0-based i (Python slicing, clamped).
Drop(s, i) == IF i >= Len(s) THEN <<>> ELSE SubSeq(s, i + 1, Len(s))

\* str[:i] for 0-based i.
Take(s, i) == IF i <= 0 THEN <<>> ELSE SubSeq(s, 1, IF i > Len(s) THEN Len(s) ELSE i)

\* str.rfind(c) + 1: the 1-based position of the last c, 0 when there is none.
RFind(s, c) ==
  LET hits == {i \in 1..Len(s) : s[i] = c}
  IN IF hits = {} THEN 0 ELSE CHOOSE i \in hits : \A j \in hits : j <= i

\* str.startswith(prefix)
StartsWith(s, prefix) == Len(s) >= Len(prefix) /\ Take(s, Len(prefix)) = prefix

\* The number of leading characters of s equal to c.
LeadingCount(s, c) ==
  LET stops == {i \in 1..Len(s) : s[i] # c}
  IN IF stops = {} THEN Len(s) ELSE (CHOOSE i \in stops : \A j \in stops : i <= j) - 1

\* str.lstrip(c)
LStrip(s, c) == Drop(s, LeadingCount(s, c))

\* str.rstrip(c)
RStrip(s, c) ==
  LET keeps == {i \in 1..Len(s) : s[i] # c}
  IN IF keeps = {} THEN <<>> ELSE Take(s, CHOOSE i \in keeps : \A j \in keeps : j <= i)

\* str.strip() of a line whose only blanks are spaces.
Strip(s) == RStrip(LStrip(s, " "), " ")

\* str.endswith(suffix)
EndsWith(s, suffix) == Len(s) >= Len(suffix) /\ Drop(s, Len(s) - Len(suffix)) = suffix

\* str.lower() on the letters of 'A'..'Z'; any other character of the
\* model's paths is left as it is.
UpperLetters == <<"A", "B", "C", "D", "E", "F", "G", "H", "I", "J", "K", "L", "M", "N", "O", "P", "Q", "R", "S", "T", "U", "V", "W", "X", "Y", "Z">>

LowerLetters == <<"a", "b", "c", "d", "e", "f", "g", "h", "i", "j", "k", "l", "m", "n", "o", "p", "q", "r", "s", "t", "u", "v", "w", "x", "y", "z">>

LowerChar(c) ==
  IF \E i \in 1..26 : UpperLetters[i] = c
  THEN LowerLetters[CHOOSE i \in 1..26 : UpperLetters[i] = c]
  ELSE c

Lower(s) == [i \in 1..Len(s) |-> LowerChar(s[i])]

\* os.path.dirname (posixpath): the head up to the last '/', trailing
\* slashes stripped unless the head is all slashes.
Dirname(p) ==
  LET head == Take(p, RFind(p, "/"))
  IN IF head # <<>> /\ RStrip(head, "/") # <<>> THEN RStrip(head, "/") ELSE head

\* os.path.basename (posixpath): what follows the last '/'.
Basename(p) == Drop(p, RFind(p, "/"))

\* os.path.splitext(name)[0] (genericpath._splitext): the part before the
\* last '.', unless that dot only follows leading dots of the last segment.
SplitextRoot(p) ==
  LET sepIndex == RFind(p, "/")
      dotIndex == RFind(p, ".")
  IN IF dotIndex > sepIndex /\ \E i \in (sepIndex + 1)..(dotIndex - 1) : p[i] # "."
     THEN Take(p, dotIndex - 1)
     ELSE p

\* os.path.splitext(name)[1]
SplitextExt(p) == Drop(p, Len(SplitextRoot(p)))

\* os.path.join(a, b) (posixpath)
Join(a, b) ==
  IF StartsWith(b, <<"/">>) THEN b
  ELSE IF a = <<>> \/ a[Len(a)] = "/" THEN a \o b
  ELSE a \o <<"/">> \o b

\* str.split('/')[0]
SplitHead(s) ==
  LET cuts == {i \in 1..Len(s) : s[i] = "/"}
  IN IF cuts = {} THEN s ELSE Take(s, (CHOOSE i \in cuts : \A j \in cuts : i <= j) - 1)

\* '/'.join(str.split('/')[1:]): what follows the first '/'.
SplitTail(s) ==
  LET cuts == {i \in 1..Len(s) : s[i] = "/"}
  IN IF cuts = {} THEN <<>> ELSE Drop(s, CHOOSE i \in cuts : \A j \in cuts : i <= j)

\* len(str.split('/'))
SplitCount(s) == Cardinality({i \in 1..Len(s) : s[i] = "/"}) + 1

\* ord(c) for the characters the model's paths use.
Ord(c) ==
  CASE c = "." -> 46
    [] c = "/" -> 47
    [] c = "@" -> 64
    [] c = "_" -> 95
    [] c = "a" -> 97
    [] c = "b" -> 98
    [] c = "c" -> 99
    [] c = "d" -> 100
    [] c = "e" -> 101
    [] c = "h" -> 104
    [] c = "i" -> 105
    [] c = "j" -> 106
    [] c = "n" -> 110
    [] c = "p" -> 112
    [] c = "s" -> 115
    [] c = "t" -> 116
    [] c = "u" -> 117
    [] c = "x" -> 120
    [] c = "y" -> 121
    [] OTHER -> 0

\* Python's str < str: by code point at the first difference, a proper
\* prefix first.
StrLess(s, t) ==
  LET n == IF Len(s) < Len(t) THEN Len(s) ELSE Len(t)
      diffs == {i \in 1..n : s[i] # t[i]}
  IN IF diffs = {}
     THEN Len(s) < Len(t)
     ELSE LET i == CHOOSE k \in diffs : \A j \in diffs : k <= j
          IN Ord(s[i]) < Ord(t[i])

----------------------------------------------------------------------------
(* Dictionaries that keep insertion order (Python dict, defaultdict(set)):  *)
(* a sequence of [k, v] entries with distinct keys.                         *)

KeySet(d) == {d[i].k : i \in 1..Len(d)}

\* key in d
Has(d, key) == key \in KeySet(d)

\* d[key], for a key of d
Lookup(d, key) == d[CHOOSE i \in 1..Len(d) : d[i].k = key].v

\* d.get(key, []) of a dictionary of sets
GetSet(d, key) == IF Has(d, key) THEN Lookup(d, key) ELSE {}

\* A mutation of AddTo that overwrites the value set instead of adding to it.
AddToOverwrite(d, key, x) ==
  IF Has(d, key)
  THEN [i \in 1..Len(d) |-> IF d[i].k = key THEN [k |-> key, v |-> {x}] ELSE d[i]]
  ELSE Append(d, [k |-> key, v |-> {x}])

\* d[key].add(x) on a defaultdict(set): a missing key is created at the end.
AddTo(d, key, x) ==
  IF Has(d, key)
  THEN [i \in 1..Len(d) |-> IF d[i].k = key THEN [k |-> key, v |-> d[i].v \cup {x}] ELSE d[i]]
  ELSE Append(d, [k |-> key, v |-> {x}])

\* d[key] = value on a plain dict; only lookups read it, so the module
\* index is kept as a function from its keys.
Assign(m, key, value) ==
  [x \in (DOMAIN m) \cup {key} |-> IF x = key THEN value ELSE m[x]]

----------------------------------------------------------------------------
(* The analyser's inputs                                                    *)

\* RepoScanner.get_language_from_extension, for the extensions used here.
LanguageOf(path) ==
  LET ext == SplitextExt(path)
  IN CASE ext = <<".", "p", "y">> -> "python"
       [] ext = <<".", "j", "s">> -> "javascript"
       [] ext = <<".", "t", "s">> -> "typescript"
       [] OTHER -> NoLanguage

\* One entry of file_data.
FileRecord(path) == [path |-> path, language |-> LanguageOf(path)]

\* [f['path'] for f in self.file_data]
FilePaths(fd) == {fd[i].path : i \in 1..Len(fd)}

\* [os.path.dirname(f['path']) for f in self.file_data]
FileDirs(fd) == {Dirname(fd[i].path) : i \in 1..Len(fd)}

\* An import record as the Python adapter emits it for "import <name>".
PyImport(name) == [type |-> "import", name |-> name, module |-> NoneVal]

\* An import record as the JavaScript adapter emits it for
\* "import x from '<module>'".
JsImport(module) == [type |-> "default_import", name |-> <<"x">>, module |-> module]

\* The module token _build_dependency_graph reads from an import record.
ModuleNameOf(import_info) ==
  CASE import_info.type = "import" -> import_info.name
    [] import_info.type = "from_import" -> import_info.module
    [] import_info.type \in {"named_import", "default_import"} -> import_info.module
    [] import_info.type = "namespace_import" -> import_info.module
    [] import_info.type = "side_effect_import" -> import_info.module
    [] OTHER -> NoneVal

\* Python truthiness of an optional string: None and '' are false.
Truthy(x) == x # NoneVal /\ x # <<>>

\* module_name.startswith(('http', 'https', '@'))
IsExternal(module_name) ==
  \/ StartsWith(module_name, <<"h", "t", "t", "p">>)
  \/ StartsWith(module_name, <<"h", "t", "t", "p", "s">>)
  \/ StartsWith(module_name, <<"@">>)

----------------------------------------------------------------------------
(* Module index                                                             *)

EntryPointNames ==
  { <<"i","n","d","e","x",".","j","s">>,
    <<"i","n","d","e","x",".","j","s","x">>,
    <<"i","n","d","e","x",".","t","s">>,
    <<"i","n","d","e","x",".","t","s","x">> }

InitPy == <<"_","_","i","n","i","t","_","_",".","p","y">>

\* A mutation of RegisterFile that keeps the value a name already has.
RegisterFileFirstWins(mm, file_path) ==
  LET file_name == Basename(file_path)
      module_name == SplitextRoot(file_name)
      dir_path == Dirname(file_path)
      dir_name == Basename(dir_path)
      m1 == IF module_name \in DOMAIN mm THEN mm ELSE Assign(mm, module_name, file_path)
  IN IF (file_name = InitPy \/ file_name \in EntryPointNames) /\ dir_name \notin DOMAIN m1
     THEN Assign(m1, dir_name, dir_path) ELSE m1

\* One iteration of the loop of _build_module_mapping.
RegisterFile(mm, file_path) ==
  LET file_name == Basename(file_path)
      module_name == SplitextRoot(file_name)
      dir_path == Dirname(file_path)
      dir_name == Basename(dir_path)
      m1 == Assign(mm, module_name, file_path)
      m2 == IF file_name = InitPy THEN Assign(m1, dir_name, dir_path) ELSE m1
  IN IF file_name \in EntryPointNames THEN Assign(m2, dir_name, dir_path) ELSE m2

----------------------------------------------------------------------------
(* Import resolver                                                          *)

\* dot_count: the number of leading '.' characters.
DotCount(import_path) == LeadingCount(import_path, ".")

RECURSIVE DirnameTimes(_, _)
\* for _ in range(n): base_dir = os.path.dirname(base_dir)
DirnameTimes(dir, n) == IF n <= 0 THEN dir ELSE DirnameTimes(Dirname(dir), n - 1)

\* base_dir of a relative import.
BaseDir(importing_file, import_path) ==
  DirnameTimes(Dirname(importing_file), DotCount(import_path) - 1)

\* rel_path of a relative import.
RelPath(import_path) == LStrip(Drop(import_path, DotCount(import_path)), "/")

\* The relative branch of _resolve_import.
ResolveRelative(mm, fd, importing_file, import_path) ==
  LET rel_path == RelPath(import_path)
      dir_path == Join(BaseDir(importing_file, import_path), rel_path)
  IN IF rel_path \in DOMAIN mm THEN mm[rel_path]
     ELSE IF dir_path \in FileDirs(fd) THEN dir_path
     ELSE NoneVal

\* The absolute branch of _resolve_import.
ResolveAbsolute(mm, fd, import_path) ==
  LET head == SplitHead(import_path)
      submodule == Join(Dirname(mm[head]), SplitTail(import_path))
  IN IF import_path \in DOMAIN mm THEN mm[import_path]
     ELSE IF head \in DOMAIN mm /\ SplitCount(import_path) > 1 /\ submodule \in FilePaths(fd)
          THEN submodule
     ELSE NoneVal

\* _resolve_import(importing_file, import_path)
ResolveImport(mm, fd, importing_file, import_path) ==
  IF StartsWith(import_path, <<".">>)
  THEN ResolveRelative(mm, fd, importing_file, import_path)
  ELSE ResolveAbsolute(mm, fd, import_path)


----------------------------------------------------------------------------
(* Bounds and input universes                                               *)

\* The most import statements one fact record holds.
MaxImportsPerFile == 2

\* The most import statements all fact records of a run hold together.
MaxImports == 4

\* The most files of a repository with directories.
MaxNestedFiles == 2

\* The largest threshold tried besides the default one.
MaxThreshold == 2

\* The largest node budget tried besides the default one.
MaxNodeBudget == 2

\* The most files of a repository with packages.
MaxPackageFiles == 3

\* The most lines of a JavaScript file searched for a documentation block.
MaxLines == 4

\* The most files the scanner hands to _parse_files.
MaxScannedFiles == 3

\* The most lines of a text both the JavaScript and the TypeScript adapter
\* are applied to.
MaxAdapterLines == 3

\* The most is_binary_file calls made on one scanner.
MaxBinaryCalls == 2

\* The most files of a repository whose imports name a module of a package.
MaxSubmoduleFiles == 3

\* The most sections of a document handed to _ensure_document_size.
MaxSections == 2

\* The greatest of the small size limits generate() is called with.
MaxSmallSize == 3

A_py == <<"a", ".", "p", "y">>
B_py == <<"b", ".", "p", "y">>
C_py == <<"c", ".", "p", "y">>

\* The file lists of a flat repository of Python modules, in the scanner's
\* order: all three modules, and two of them in another order.
FlatFileLists == {<<A_py, B_py, C_py>>, <<B_py, A_py>>}

\* The tokens "import a", "import b", "import c" carry.
FlatTokens == {<<"a">>, <<"b">>, <<"c">>}

U_js == <<"u", ".", "j", "s">>
A_U_js == <<"a", "/", "u", ".", "j", "s">>
A_B_U_js == <<"a", "/", "b", "/", "u", ".", "j", "s">>
A_B_T_js == <<"a", "/", "b", "/", "t", ".", "j", "s">>

\* The files of a repository with directories: three modules named u at
\* three depths, and a sibling of the deepest.
NestedFiles == {U_js, A_U_js, A_B_U_js, A_B_T_js}

\* Import tokens of such a repository: path-style relative ('./u', '../u',
\* '../../u', './b'), Python-style relative ('.u', '..u', '...u') and
\* absolute ('u').
NestedTokens ==
  { <<".", "/", "u">>,
    <<".", ".", "/", "u">>,
    <<".", ".", "/", ".", ".", "/", "u">>,
    <<".", "/", "b">>,
    <<".", "u">>,
    <<".", ".", "u">>,
    <<".", ".", ".", "u">>,
    <<"u">> }

B_js == <<"b", ".", "j", "s">>
Http_js == <<"h", "t", "t", "p", ".", "j", "s">>
A_B_Index_js == <<"a", "/", "b", "/", "i", "n", "d", "e", "x", ".", "j", "s">>

\* The files of a repository with packages: two modules at the top, one of
\* them named http, a module b at the top and a package b (a directory with
\* an entry-point file) below a directory that holds no file of its own.
PackageFiles == {U_js, B_js, Http_js, A_B_Index_js}

\* Import tokens of such a repository: the modules 'u', 'b' (a file or the
\* package, whichever was registered last) and 'http', the scoped package
\* '@s' and the URL 'http://x'.
PackageTokens ==
  { <<"u">>,
    <<"b">>,
    <<"h", "t", "t", "p">>,
    <<"@", "s">>,
    <<"h", "t", "t", "p", ":", "/", "/", "x">> }

A_T_js == <<"a", "/", "t", ".", "j", "s">>

\* The files of a repository whose imports go into a package: a module at
\* the top, the package a/b with its entry point and a module t, and a
\* module t beside the package.
SubmoduleFiles == {U_js, A_B_Index_js, A_B_T_js, A_T_js}

\* Import tokens with more than one segment: through the package name
\* ('b/t.js'), through the name of the entry-point module ('index/t.js'),
\* through a module at the top ('u/t.js'), and through no name of the
\* index ('x/t.js').
SubmoduleTokens ==
  { <<"b", "/", "t", ".", "j", "s">>,
    <<"i", "n", "d", "e", "x", "/", "t", ".", "j", "s">>,
    <<"u", "/", "t", ".", "j", "s">>,
    <<"x", "/", "t", ".", "j", "s">> }

\* "## Note\n\nThis document was truncated due to size constraints."
TruncationNote ==
  <<"#", "#", " ", "N", "o", "t", "e", "\n", "\n", "T", "h", "i",
     "s", " ", "d", "o", "c", "u", "m", "e", "n", "t", " ", "w", "a",
     "s", " ", "t", "r", "u", "n", "c", "a", "t", "e", "d", " ", "d",
     "u", "e", " ", "t", "o", " ", "s", "i", "z", "e", " ", "c", "o",
     "n", "s", "t", "r", "a", "i", "n", "t", "s", ".">>

\* The sections of a document: a heading of one letter, a letter that takes
\* two bytes in UTF-8, and a section one such letter longer than the
\* truncation note.
ShortSection == <<"a">>
WideSection == <<"é">>
LongSection == TruncationNote \o <<"é">>

Sections == {ShortSection, WideSection, LongSection}

\* max_size: int = 100 * 1024
DefaultMaxSize == 100 * 1024

\* The size limits of the model: the small ones, one that leaves room for
\* a one-letter section and the truncation note, and the default.
SizeLimits == (0..MaxSmallSize) \cup {Len(TruncationNote) + 3, DefaultMaxSize}

BlankLine == <<>>
OpenLine == <<"/", "*", "*">>
TextLine == <<" ", "*", " ", "d">>
CloseLine == <<" ", "*", "/">>
BlockLine == <<"/", "*", "*", " ", "d", " ", "*", "/">>
CodeLine == <<"f", "(", ")">>

\* The lines of a JavaScript file: a blank line, the three kinds of line of
\* a documentation block ('/**', ' * d', ' */'), a block on one line
\* ('/** d */') and a line of code, such as a declaration.
JsdocLines == {BlankLine, OpenLine, TextLine, CloseLine, BlockLine, CodeLine}

T_ts == <<"t", ".", "t", "s">>
Z_js == <<"z", ".", "j", "s">>
N_txt == <<"n", ".", "t", "x", "t">>

\* The files of a scanned repository: two Python modules, a TypeScript and
\* a JavaScript module, and a file of no known language.
ScannedFiles == {A_py, B_py, T_ts, Z_js, N_txt}

ImportBLine == <<"i", "m", "p", "o", "r", "t", " ", "b">>
SyntaxErrorLine == <<"d", "e", "f", " ", "f", "(", ":">>
ClassLine == <<"c", "l", "a", "s", "s", " ", "A", " ", "{">>
CloseBraceLine == <<"}">>

\* An expression nested deeper than the interpreter can convert to a
\* syntax tree ("x = 1+1+1+..." with some hundred thousand operands).
DeepLine == <<"x", "=", "1", "+", "1", "+", ".", ".", ".">>

\* The texts a file of the repository may hold. Python: 'import b', a
\* statement with a syntax error, an import followed by a deep expression.
\* TypeScript: a class with its closing brace, a class whose braces never
\* balance, a balanced class followed by an unbalanced one.
TextsOf(path) ==
  CASE LanguageOf(path) = "python" ->
         {<<ImportBLine>>, <<SyntaxErrorLine>>, <<ImportBLine, DeepLine>>}
    [] LanguageOf(path) = "typescript" ->
         {<<ClassLine, CloseBraceLine>>, <<ClassLine>>,
          <<ClassLine, CloseBraceLine, ClassLine>>}
    [] LanguageOf(path) = "javascript" -> {<<ClassLine>>}
    [] OTHER -> {<<CodeLine>>}

\* What the disk may hold under a path: a readable file with one of the
\* texts or, for the files that are read, a file that cannot be read or
\* decoded.
DiskFilesOf(path) ==
  {[readable |-> TRUE, lines |-> text] : text \in TextsOf(path)}
    \cup (IF LanguageOf(path) = NoLanguage THEN {}
          ELSE {[readable |-> FALSE, lines |-> <<>>]})

\* The directories, names and endings the paths given to is_binary_file
\* are made of: a dotted directory, a name that holds an extension of its
\* own or none (a dot file, with an ending), endings in both letter cases.
ScannerDirs == {<<>>, <<"d", ".", "p", "n", "g", "/">>}

ScannerNames == {<<>>, <<"t", "e", "s", "t">>, <<"t", ".", "g", "z">>}

ScannerEndings ==
  {<<>>, <<".", "J", "P", "G">>, <<".", "P", "n", "g">>, <<".", "e", "x", "e">>,
   <<".", "p", "y">>, <<".", "t", "x", "t">>}

ScannerPaths == {d \o n \o e : d \in ScannerDirs, n \in ScannerNames, e \in ScannerEndings}

PropertyLine == <<"x", ":", "T", ";">>

\* The lines of a text both adapters are applied to: a class declaration, a
\* closing brace, a typed property and a call.
AdapterLines == {ClassLine, CloseBraceLine, PropertyLine, CodeLine}

\* All orders of the elements of a finite set.
Perms(S) ==
  {p \in [1..Cardinality(S) -> S] : \A i, j \in 1..Cardinality(S) : p[i] = p[j] => i = j}

\* All lists of 1 to n distinct elements of a finite set.
ListsOf(S, n) ==
  UNION {{p \in [1..m -> S] : \A i, j \in 1..m : p[i] = p[j] => i = j} : m \in 1..n}

\* The elements of a list.
Range(l) == {l[i] : i \in 1..Len(l)}

\* All import lists of at most MaxImportsPerFile records.
ImportLists(records) == UNION {[1..n -> records] : n \in 0..MaxImportsPerFile}

RECURSIVE TotalImports(_, _)
\* The number of import records of the first n entries of parser_results.
TotalImports(pr, n) ==
  IF n = 0 THEN 0
  ELSE TotalImports(pr, n - 1)
       + (IF "imports" \in DOMAIN pr[n].v THEN Len(pr[n].v.imports) ELSE 0)

\* parser_results with one fact record per file, in the given order.
FactRecords(order, imps) ==
  [i \in 1..Len(order) |-> [k |-> order[i], v |-> [imports |-> imps[order[i]]]]]

\* file_data for a list of paths.
FileData(list) == [i \in 1..Len(list) |-> FileRecord(list[i])]

----------------------------------------------------------------------------
(* State                                                                    *)

VARIABLES
  file_data,                 \* self.file_data: the list of file records
  parser_results,            \* self.parser_results: path -> fact record, in insertion order
  module_mapping,            \* self.module_mapping
  dependency_graph,          \* self.dependency_graph
  reverse_dependency_graph,  \* self.reverse_dependency_graph
  pc,                        \* the stage analyze() is in
  cursor,                    \* the position of the loops of the two build stages
  resolve_call,              \* the most recent _resolve_import call and its locals
  key_modules,               \* the list _identify_key_modules returned
  dfs,                       \* the locals of _find_circular_dependencies
  metrics,                   \* the dictionary _calculate_dependency_metrics returned
  graph,                     \* the dictionary _create_simplified_graph returned
  disk,                      \* the files of the repository: path -> what the file holds
  adapter_calls,             \* the adapter calls _parse_files has made, with their outcomes
  jsdoc,                     \* a JavaScript adapter's content and its _extract_jsdoc_comment call
  scanner,                   \* the fields of a RepoScanner
  binary_calls,              \* the is_binary_file calls made on it, with their answers
  generator                  \* the fields of a DocumentGenerator and the position of _ensure_document_size

vars == <<file_data, parser_results, module_mapping, dependency_graph,
          reverse_dependency_graph, pc, cursor, resolve_call, key_modules,
          dfs, metrics, graph, disk, adapter_calls, jsdoc, scanner,
          binary_calls, generator>>

\* No _resolve_import call has been made yet.
NoCall == [importing_file |-> NoneVal, import_path |-> NoneVal,
           base_dir |-> NoneVal, rel_path |-> NoneVal, result |-> NoneVal]

\* _find_circular_dependencies has not started: its locals circular_deps,
\* visited and path, the position of its outer loop, the frames of the
\* running dfs calls (the node and the neighbours still to visit), and the
\* nodes in the order they were expanded (marked visited and pushed).
NoDfs == [circular_deps |-> <<>>, visited |-> {}, path |-> <<>>, outer |-> 1,
          stack |-> <<>>, expanded |-> <<>>]

\* No adapter is looking for a documentation block.
NoJsdoc == [content |-> <<>>, line_number |-> 0, returned |-> FALSE]

\* No RepoScanner has been constructed.
NoScanner == [files |-> <<>>, binary_extensions |-> <<>>]

\* self.binary_extensions: "Binary file extensions to skip".
BinaryExtensions ==
  << <<".", "j", "p", "g">>,
     <<".", "j", "p", "e", "g">>,
     <<".", "p", "n", "g">>,
     <<".", "g", "i", "f">>,
     <<".", "b", "m", "p">>,
     <<".", "i", "c", "o">>,
     <<".", "s", "v", "g">>,
     <<".", "p", "d", "f">>,
     <<".", "d", "o", "c">>,
     <<".", "d", "o", "c", "x">>,
     <<".", "p", "p", "t">>,
     <<".", "p", "p", "t", "x">>,
     <<".", "x", "l", "s">>,
     <<".", "x", "l", "s", "x">>,
     <<".", "z", "i", "p">>,
     <<".", "t", "a", "r">>,
     <<".", "g", "z">>,
     <<".", "r", "a", "r">>,
     <<".", "7", "z">>,
     <<".", "e", "x", "e">>,
     <<".", "d", "l", "l">>,
     <<".", "s", "o">>,
     <<".", "d", "y", "l", "i", "b">>,
     <<".", "p", "y", "c">>,
     <<".", "p", "y", "o">>,
     <<".", "p", "y", "d">>,
     <<".", "c", "l", "a", "s", "s">>,
     <<".", "j", "a", "r">>,
     <<".", "m", "p", "3">>,
     <<".", "m", "p", "4">>,
     <<".", "a", "v", "i">>,
     <<".", "m", "o", "v">>,
     <<".", "w", "a", "v">>,
     <<".", "t", "t", "f">>,
     <<".", "o", "t", "f">>,
     <<".", "w", "o", "f", "f">>,
     <<".", "w", "o", "f", "f", "2">> >>

\* RepoScanner.__init__, for the fields is_binary_file can reach.
ScannerConstructed == [files |-> <<>>, binary_extensions |-> BinaryExtensions]

\* No DocumentGenerator has been constructed.
NoGenerator == [document |-> <<>>, max_size |-> 0, at_entry |-> <<>>]

\* DependencyAnalyzer.__init__
Constructed(fd, pr) ==
  /\ file_data = fd
  /\ parser_results = pr
  /\ module_mapping = <<>>
  /\ dependency_graph = <<>>
  /\ reverse_dependency_graph = <<>>
  /\ pc = "mapping"
  /\ cursor = [file |-> 1, import |-> 1]
  /\ resolve_call = NoCall
  /\ key_modules = <<>>
  /\ dfs = NoDfs
  /\ metrics = <<>>
  /\ graph = <<>>
  /\ disk = <<>>
  /\ adapter_calls = <<>>
  /\ jsdoc = NoJsdoc
  /\ scanner = NoScanner
  /\ binary_calls = <<>>
  /\ generator = NoGenerator

\* An analyser constructed over a flat repository: a fact record for every
\* file, the entries in any order, at most MaxImports import records in all.
Init ==
  \E list \in FlatFileLists :
    \E order \in Perms(Range(list)) :
      \E imps \in [Range(list) -> ImportLists({PyImport(t) : t \in FlatTokens})] :
        /\ TotalImports(FactRecords(order, imps), Len(order)) <= MaxImports
        /\ Constructed(FileData(list), FactRecords(order, imps))

\* An analyser constructed over a repository with directories: the files in
\* any order, and one of them with import records.
InitNested ==
  \E list \in ListsOf(NestedFiles, MaxNestedFiles) :
    \E importer \in Range(list) :
      \E imports \in ImportLists({JsImport(t) : t \in NestedTokens}) :
        Constructed(FileData(list),
                    FactRecords(list, [f \in Range(list) |->
                                         IF f = importer THEN imports ELSE <<>>]))

\* An analyser constructed over a repository with packages: the files in
\* any order, and one of them with import records.
InitPackages ==
  \E list \in ListsOf(PackageFiles, MaxPackageFiles) :
    \E importer \in Range(list) :
      \E imports \in ImportLists({JsImport(t) : t \in PackageTokens}) :
        Constructed(FileData(list),
                    FactRecords(list, [f \in Range(list) |->
                                         IF f = importer THEN imports ELSE <<>>]))

\* An analyser constructed over a repository whose imports go into a
\* package: the files in any order, and one of them with import records.
InitSubmodules ==
  \E list \in ListsOf(SubmoduleFiles, MaxSubmoduleFiles) :
    \E importer \in Range(list) :
      \E imports \in ImportLists({JsImport(t) : t \in SubmoduleTokens}) :
        Constructed(FileData(list),
                    FactRecords(list, [f \in Range(list) |->
                                         IF f = importer THEN imports ELSE <<>>]))

\* A JavaScript adapter that has read its file (or failed to: no content),
\* about to be asked for the documentation block of any line number, also
\* one outside the file.
InitJsdoc ==
  \E content \in {NoContent} \cup UNION {[1..n -> JsdocLines] : n \in 1..MaxLines} :
    \E line_number \in 0..(MaxLines + 1) :
      /\ jsdoc = [content |-> content, line_number |-> line_number, returned |-> FALSE]
      /\ scanner = NoScanner
      /\ binary_calls = <<>>
      /\ generator = NoGenerator
      /\ file_data = <<>>
      /\ parser_results = <<>>
      /\ module_mapping = <<>>
      /\ dependency_graph = <<>>
      /\ reverse_dependency_graph = <<>>
      /\ pc = "jsdoc"
      /\ cursor = [file |-> 1, import |-> 1]
      /\ resolve_call = NoCall
      /\ key_modules = <<>>
      /\ dfs = NoDfs
      /\ metrics = <<>>
      /\ graph = <<>>
      /\ disk = <<>>
      /\ adapter_calls = <<>>

\* A RepositoryAnalyzer after _scan_repository: the scanned files in any
\* order, no fact record yet, and any of the possible files on the disk.
InitMain ==
  \E list \in ListsOf(ScannedFiles, MaxScannedFiles) :
    \E files \in [Range(list) -> UNION {DiskFilesOf(f) : f \in Range(list)}] :
      /\ \A f \in Range(list) : files[f] \in DiskFilesOf(f)
      /\ disk = files
      /\ file_data = FileData(list)
      /\ parser_results = <<>>
      /\ adapter_calls = <<>>
      /\ pc = "parsing"
      /\ cursor = [file |-> 1, import |-> 1]
      /\ module_mapping = <<>>
      /\ dependency_graph = <<>>
      /\ reverse_dependency_graph = <<>>
      /\ resolve_call = NoCall
      /\ key_modules = <<>>
      /\ dfs = NoDfs
      /\ metrics = <<>>
      /\ graph = <<>>
      /\ jsdoc = NoJsdoc
      /\ scanner = NoScanner
      /\ binary_calls = <<>>
      /\ generator = NoGenerator

\* A DocumentGenerator whose sections are written, about to check the size
\* of the document against the limit generate() was called with.
InitGenerator ==
  \E document \in UNION {[1..n -> Sections] : n \in 0..MaxSections} :
    \E max_size \in SizeLimits :
      /\ generator = [document |-> document, max_size |-> max_size,
                      at_entry |-> document]
      /\ pc = "ensure"
      /\ scanner = NoScanner
      /\ binary_calls = <<>>
      /\ file_data = <<>>
      /\ parser_results = <<>>
      /\ module_mapping = <<>>
      /\ dependency_graph = <<>>
      /\ reverse_dependency_graph = <<>>
      /\ cursor = [file |-> 1, import |-> 1]
      /\ resolve_call = NoCall
      /\ key_modules = <<>>
      /\ dfs = NoDfs
      /\ metrics = <<>>
      /\ graph = <<>>
      /\ disk = <<>>
      /\ adapter_calls = <<>>
      /\ jsdoc = NoJsdoc

\* A RepoScanner after its construction, no call made yet.
InitScanner ==
  /\ scanner = ScannerConstructed
  /\ binary_calls = <<>>
  /\ generator = NoGenerator
  /\ pc = "scanner"
  /\ file_data = <<>>
  /\ parser_results = <<>>
  /\ module_mapping = <<>>
  /\ dependency_graph = <<>>
  /\ reverse_dependency_graph = <<>>
  /\ cursor = [file |-> 1, import |-> 1]
  /\ resolve_call = NoCall
  /\ key_modules = <<>>
  /\ dfs = NoDfs
  /\ metrics = <<>>
  /\ graph = <<>>
  /\ disk = <<>>
  /\ adapter_calls = <<>>
  /\ jsdoc = NoJsdoc

\* One TypeScript file on the disk, of any text of the adapter lines or
\* unreadable, that the JavaScript and the TypeScript adapter are about to
\* be applied to.
InitAdapters ==
  \E text \in UNION {[1..n -> AdapterLines] : n \in 1..MaxAdapterLines} :
    \E file \in {[readable |-> TRUE, lines |-> text], [readable |-> FALSE, lines |-> <<>>]} :
      /\ disk = [f \in {T_ts} |-> file]
      /\ file_data = FileData(<<T_ts>>)
      /\ parser_results = <<>>
      /\ adapter_calls = <<>>
      /\ pc = "adapters"
      /\ cursor = [file |-> 1, import |-> 1]
      /\ module_mapping = <<>>
      /\ dependency_graph = <<>>
      /\ reverse_dependency_graph = <<>>
      /\ resolve_call = NoCall
      /\ key_modules = <<>>
      /\ dfs = NoDfs
      /\ metrics = <<>>
      /\ graph = <<>>
      /\ jsdoc = NoJsdoc
      /\ scanner = NoScanner
      /\ binary_calls = <<>>
      /\ generator = NoGenerator

----------------------------------------------------------------------------
(* _build_module_mapping                                                    *)

\* Whether entry fi of parser_results has an import record at position ii.
HasImportAt(pr, fi, ii) ==
  /\ fi <= Len(pr)
  /\ "imports" \in DOMAIN pr[fi].v
  /\ ii <= Len(pr[fi].v.imports)

\* The first position at or after (fi, ii) that holds an import record, in
\* the order of the two nested loops of _build_dependency_graph; the file
\* index Len(pr) + 1 when the loops are over.
NextImportPos(pr, fi, ii) ==
  IF HasImportAt(pr, fi, ii) THEN [file |-> fi, import |-> ii]
  ELSE LET later == {f \in (fi + 1)..Len(pr) : HasImportAt(pr, f, 1)}
       IN IF later = {} THEN [file |-> Len(pr) + 1, import |-> 1]
          ELSE [file |-> CHOOSE f \in later : \A g \in later : f <= g, import |-> 1]

\* A mutation of BuildModuleMappingStep that leaves the loop after the first
\* file, so the graph is built on an index that misses the later files.
BuildModuleMappingStepFirstOnly ==
  /\ pc = "mapping"
  /\ cursor.file <= Len(file_data)
  /\ module_mapping' = RegisterFile(module_mapping, file_data[cursor.file].path)
  /\ cursor' = NextImportPos(parser_results, 1, 1)
  /\ pc' = IF NextImportPos(parser_results, 1, 1).file > Len(parser_results)
           THEN "built" ELSE "graph"
  /\ UNCHANGED <<scanner, binary_calls, generator, disk, adapter_calls, jsdoc, file_data, parser_results, dependency_graph, reverse_dependency_graph,
                 resolve_call, key_modules, dfs, metrics, graph>>

\* One iteration of "for file_info in self.file_data"; after the last one
\* analyze() enters _build_dependency_graph.
BuildModuleMappingStep ==
  /\ pc = "mapping"
  /\ cursor.file <= Len(file_data)
  /\ module_mapping' = RegisterFile(module_mapping, file_data[cursor.file].path)
  /\ IF cursor.file < Len(file_data)
     THEN /\ cursor' = [file |-> cursor.file + 1, import |-> 1]
          /\ pc' = pc
     ELSE /\ cursor' = NextImportPos(parser_results, 1, 1)
          /\ pc' = IF NextImportPos(parser_results, 1, 1).file > Len(parser_results)
                   THEN "built" ELSE "graph"
  /\ UNCHANGED <<scanner, binary_calls, generator, disk, adapter_calls, jsdoc, file_data, parser_results, dependency_graph, reverse_dependency_graph,
                 resolve_call, key_modules, dfs, metrics, graph>>

----------------------------------------------------------------------------
(* _build_dependency_graph                                                  *)

\* The record of a _resolve_import call: its arguments, the locals of the
\* relative branch, and what it returned.
ResolveCall(mm, fd, importing_file, import_path) ==
  [importing_file |-> importing_file,
   import_path |-> import_path,
   base_dir |-> IF StartsWith(import_path, <<".">>)
                THEN BaseDir(importing_file, import_path) ELSE NoneVal,
   rel_path |-> IF StartsWith(import_path, <<".">>)
                THEN RelPath(import_path) ELSE NoneVal,
   result |-> ResolveImport(mm, fd, importing_file, import_path)]

\* A mutation of AddForward that replaces the set of the file's dependencies
\* by the new one.
AddForwardOverwrite(dg, file_path, resolved_path) ==
  AddToOverwrite(dg, file_path, resolved_path)

\* self.dependency_graph[file_path].add(resolved_path)
AddForward(dg, file_path, resolved_path) == AddTo(dg, file_path, resolved_path)

\* A mutation of AddReverse that files the edge under its source.
AddReverseSwapped(rg, file_path, resolved_path) == AddTo(rg, file_path, resolved_path)

\* self.reverse_dependency_graph[resolved_path].add(file_path)
AddReverse(rg, file_path, resolved_path) == AddTo(rg, resolved_path, file_path)

\* One iteration of "for import_info in parse_result['imports']", with the
\* loop control that leads to the next import record (entries without
\* imports are skipped); after the last one the graph is built.
BuildGraphStep ==
  /\ pc = "graph"
  /\ HasImportAt(parser_results, cursor.file, cursor.import)
  /\ LET file_path == parser_results[cursor.file].k
         module_name == ModuleNameOf(parser_results[cursor.file].v.imports[cursor.import])
         resolving == Truthy(module_name) /\ ~IsExternal(module_name)
         call == ResolveCall(module_mapping, file_data, file_path, module_name)
         next == NextImportPos(parser_results, cursor.file, cursor.import + 1)
     IN /\ resolve_call' = IF resolving THEN call ELSE resolve_call
        /\ IF resolving /\ Truthy(call.result)
           THEN /\ dependency_graph' = AddForward(dependency_graph, file_path, call.result)
                /\ reverse_dependency_graph' =
                     AddReverse(reverse_dependency_graph, file_path, call.result)
           ELSE UNCHANGED <<dependency_graph, reverse_dependency_graph>>
        /\ cursor' = next
        /\ pc' = IF next.file > Len(parser_results) THEN "built" ELSE pc
  /\ UNCHANGED <<scanner, binary_calls, generator, disk, adapter_calls, jsdoc, file_data, parser_results, module_mapping, key_modules, dfs,
                 metrics, graph>>


----------------------------------------------------------------------------
(* _identify_key_modules                                                    *)

\* threshold: int = 5
DefaultThreshold == 5

\* The file record whose path is the given one, found by the linear search
\* of the analytics; None when there is none.
LanguageOfPath(fd, path) ==
  LET hits == {i \in 1..Len(fd) : fd[i].path = path}
  IN IF hits = {} THEN NoLanguage
     ELSE fd[CHOOSE i \in hits : \A j \in hits : i <= j].language

\* The entry appended for a module whose dependents reach the threshold.
\* The fact records of the model carry neither a docstring nor a summary,
\* so the description stays None.
KeyModuleEntry(fd, entry) ==
  [path |-> entry.k,
   dependents_count |-> Cardinality(entry.v),
   language |-> LanguageOfPath(fd, entry.k),
   description |-> NoneVal]

RECURSIVE SelectKeyModulesStrict(_, _, _, _)
\* A mutation of SelectKeyModules that keeps a module only when its
\* dependents exceed the threshold.
SelectKeyModulesStrict(fd, rg, n, threshold) ==
  IF n = 0 THEN <<>>
  ELSE LET before == SelectKeyModulesStrict(fd, rg, n - 1, threshold)
       IN IF Cardinality(rg[n].v) > threshold
          THEN Append(before, KeyModuleEntry(fd, rg[n]))
          ELSE before

RECURSIVE SelectKeyModules(_, _, _, _)
\* The loop over self.reverse_dependency_graph.items(): the entries of the
\* first n keys whose dependents reach the threshold, in the dict's order.
SelectKeyModules(fd, rg, n, threshold) ==
  IF n = 0 THEN <<>>
  ELSE LET before == SelectKeyModules(fd, rg, n - 1, threshold)
       IN IF Cardinality(rg[n].v) >= threshold
          THEN Append(before, KeyModuleEntry(fd, rg[n]))
          ELSE before

\* key_modules.sort(key=lambda x: x['dependents_count'], reverse=True):
\* Python's sort is stable, also with reverse=True, so entries with equal
\* counts keep the order they had.
SortByDependents(entries) ==
  LET n == Len(entries)
      Before(i, j) == \/ entries[i].dependents_count > entries[j].dependents_count
                      \/ /\ entries[i].dependents_count = entries[j].dependents_count
                         /\ i < j
      Rank(i) == Cardinality({j \in 1..n : Before(j, i)}) + 1
  IN [r \in 1..n |-> entries[CHOOSE i \in 1..n : Rank(i) = r]]

\* _identify_key_modules(threshold)
IdentifyKeyModulesResult(fd, rg, threshold) ==
  SortByDependents(SelectKeyModules(fd, rg, Len(rg), threshold))

\* _identify_key_modules(threshold), called when analyze() is at `at`.
IdentifyKeyModules(at, threshold, next) ==
  /\ pc = at
  /\ key_modules' = [threshold |-> threshold,
                     result |-> IdentifyKeyModulesResult(file_data,
                                  reverse_dependency_graph, threshold)]
  /\ pc' = next
  /\ UNCHANGED <<scanner, binary_calls, generator, disk, adapter_calls, jsdoc, file_data, parser_results, module_mapping, dependency_graph,
                 reverse_dependency_graph, cursor, resolve_call, dfs, metrics, graph>>

----------------------------------------------------------------------------
(* _find_circular_dependencies                                              *)

\* path.index(node): the 1-based position of the first occurrence.
IndexOf(seq, x) == CHOOSE i \in 1..Len(seq) : seq[i] = x /\ \A j \in 1..(i - 1) : seq[j] # x

InSeq(seq, x) == \E i \in 1..Len(seq) : seq[i] = x

\* A mutation of DfsCall that tests the visited set before the path, so a
\* back edge to a node on the path is taken for an explored node.
DfsCallVisitedFirst(dg, d, node) ==
  IF node \in d.visited THEN d
  ELSE [d EXCEPT !.visited = @ \cup {node},
                 !.path = Append(@, node),
                 !.stack = Append(@, [node |-> node, todo |-> GetSet(dg, node)]),
                 !.expanded = Append(@, node)]

\* A mutation of DfsCall that reports the whole path, not the part of it
\* from the node's first occurrence on.
DfsCallWholePath(dg, d, node) ==
  IF InSeq(d.path, node)
  THEN [d EXCEPT !.circular_deps = Append(@, Append(d.path, node))]
  ELSE IF node \in d.visited THEN d
  ELSE [d EXCEPT !.visited = @ \cup {node},
                 !.path = Append(@, node),
                 !.stack = Append(@, [node |-> node, todo |-> GetSet(dg, node)]),
                 !.expanded = Append(@, node)]

\* A mutation of DfsCall that does not add the node to the visited set.
DfsCallUnmarked(dg, d, node) ==
  IF InSeq(d.path, node)
  THEN [d EXCEPT !.circular_deps =
          Append(@, Append(Drop(d.path, IndexOf(d.path, node) - 1), node))]
  ELSE IF node \in d.visited THEN d
  ELSE [d EXCEPT !.path = Append(@, node),
                 !.stack = Append(@, [node |-> node, todo |-> GetSet(dg, node)]),
                 !.expanded = Append(@, node)]

\* The call dfs(node) up to its loop over the neighbours: a node on the
\* path closes a cycle, a visited node returns at once, and any other node
\* is marked, pushed on the path and gets a frame holding the neighbours it
\* has still to visit.
DfsCall(dg, d, node) ==
  IF InSeq(d.path, node)
  THEN [d EXCEPT !.circular_deps =
          Append(@, Append(Drop(d.path, IndexOf(d.path, node) - 1), node))]
  ELSE IF node \in d.visited THEN d
  ELSE [d EXCEPT !.visited = @ \cup {node},
                 !.path = Append(@, node),
                 !.stack = Append(@, [node |-> node, todo |-> GetSet(dg, node)]),
                 !.expanded = Append(@, node)]

\* One iteration of "for node in self.dependency_graph".
FindCyclesOuter ==
  /\ pc = "cycles"
  /\ dfs.stack = <<>>
  /\ dfs.outer <= Len(dependency_graph)
  /\ LET node == dependency_graph[dfs.outer].k
         advanced == [dfs EXCEPT !.outer = @ + 1]
     IN dfs' = IF node \notin dfs.visited
               THEN DfsCall(dependency_graph, advanced, node)
               ELSE advanced
  /\ UNCHANGED <<scanner, binary_calls, generator, disk, adapter_calls, jsdoc, file_data, parser_results, module_mapping, dependency_graph,
                 reverse_dependency_graph, pc, cursor, resolve_call, key_modules,
                 metrics, graph>>

\* A mutation of AfterGet that reads the auto-creating dictionary by
\* d[key], which files a missing key with an empty set.
AfterGetItem(d, key) ==
  IF Has(d, key) THEN d ELSE Append(d, [k |-> key, v |-> {}])

\* The dictionary after d.get(key, []): the read creates no key, although
\* the dictionary is an auto-creating one.
AfterGet(d, key) == d

\* One iteration of "for neighbor in self.dependency_graph.get(node, [])"
\* in the innermost running call: the set is iterated in an order the
\* program does not control, and the call dfs(neighbor) reads the
\* neighbours of a node that may be no key of the dictionary.
DfsNeighbor ==
  /\ pc = "cycles"
  /\ dfs.stack # <<>>
  /\ \E neighbor \in dfs.stack[Len(dfs.stack)].todo :
       /\ dfs' = DfsCall(dependency_graph,
                         [dfs EXCEPT !.stack[Len(dfs.stack)].todo = @ \ {neighbor}],
                         neighbor)
       /\ dependency_graph' = AfterGet(dependency_graph, neighbor)
  /\ UNCHANGED <<scanner, binary_calls, generator, disk, adapter_calls, jsdoc, file_data, parser_results, module_mapping,
                 reverse_dependency_graph, pc, cursor, resolve_call, key_modules,
                 metrics, graph>>

\* The end of a call's loop: path.pop() and the return to the caller.
DfsReturn ==
  /\ pc = "cycles"
  /\ dfs.stack # <<>>
  /\ dfs.stack[Len(dfs.stack)].todo = {}
  /\ dfs' = [dfs EXCEPT !.path = Take(@, Len(@) - 1),
                        !.stack = Take(@, Len(@) - 1)]
  /\ UNCHANGED <<scanner, binary_calls, generator, disk, adapter_calls, jsdoc, file_data, parser_results, module_mapping, dependency_graph,
                 reverse_dependency_graph, pc, cursor, resolve_call, key_modules,
                 metrics, graph>>

\* "return circular_deps", when the outer loop is over.
FindCyclesReturn(next) ==
  /\ pc = "cycles"
  /\ dfs.stack = <<>>
  /\ dfs.outer > Len(dependency_graph)
  /\ pc' = next
  /\ UNCHANGED <<scanner, binary_calls, generator, disk, adapter_calls, jsdoc, file_data, parser_results, module_mapping, dependency_graph,
                 reverse_dependency_graph, cursor, resolve_call, key_modules, dfs,
                 metrics, graph>>

----------------------------------------------------------------------------
(* _calculate_dependency_metrics                                            *)

\* sum(1 for file in self.file_data if file['path'] not in d)
CountNotIn(fd, d) == Cardinality({i \in 1..Len(fd) : ~Has(d, fd[i].path)})

\* isolated_files: "Count of files with no dependencies".
IsolatedFiles(fd, dg, rg) == CountNotIn(fd, dg)

\* leaf_files: "Count of files with no dependents".
LeafFiles(fd, dg, rg) == CountNotIn(fd, rg)

\* (count, file) < (other_count, other_file), as Python compares tuples.
TupleLess(count, file, other_count, other_file) ==
  count < other_count \/ (count = other_count /\ StrLess(file, other_file))

\* max((len(deps), file) for file, deps in d.items()) if d else (0, None)
MaxEntry(d) ==
  IF d = <<>> THEN [count |-> 0, file |-> NoneVal]
  ELSE LET i == CHOOSE k \in 1..Len(d) :
                  \A j \in 1..Len(d) :
                    ~TupleLess(Cardinality(d[k].v), d[k].k, Cardinality(d[j].v), d[j].k)
       IN [count |-> Cardinality(d[i].v), file |-> d[i].k]

\* {'count': m[0], 'file': m[1]} if m[1] else None
MaxField(m) ==
  IF Truthy(m.file) THEN [named |-> TRUE, count |-> m.count, file |-> m.file]
  ELSE [named |-> FALSE]

RECURSIVE Reachable(_, _, _)
\* The inner loop of the component search: everything reached from the
\* nodes of `component` along dependencies and dependents.
Reachable(dg, rg, component) ==
  LET more == component \cup UNION {GetSet(dg, x) \cup GetSet(rg, x) : x \in component}
  IN IF more = component THEN component ELSE Reachable(dg, rg, more)

RECURSIVE ConnectedComponents(_, _, _, _, _)
\* connected_components, from the file at position i on: a file already
\* visited is skipped, and a component is kept when it has more than one
\* member.
ConnectedComponents(fd, dg, rg, i, visited) ==
  IF i > Len(fd) THEN <<>>
  ELSE IF fd[i].path \in visited THEN ConnectedComponents(fd, dg, rg, i + 1, visited)
  ELSE LET component == Reachable(dg, rg, {fd[i].path})
       IN (IF Cardinality(component) > 1 THEN <<component>> ELSE <<>>)
            \o ConnectedComponents(fd, dg, rg, i + 1, visited \cup component)

\* max(len(c) for c in connected_components) if connected_components else 0
LargestComponentSize(components) ==
  IF components = <<>> THEN 0
  ELSE Cardinality(components[CHOOSE i \in 1..Len(components) :
                                \A j \in 1..Len(components) :
                                  Cardinality(components[j]) <= Cardinality(components[i])])

\* The dictionary _calculate_dependency_metrics returns, without the average.
MetricsResult(fd, dg, rg) ==
  [total_files |-> Len(fd),
   files_with_dependencies |-> Len(dg),
   files_with_dependents |-> Len(rg),
   isolated_files |-> IsolatedFiles(fd, dg, rg),
   leaf_files |-> LeafFiles(fd, dg, rg),
   max_dependencies |-> MaxField(MaxEntry(dg)),
   max_dependents |-> MaxField(MaxEntry(rg)),
   connected_components |-> Len(ConnectedComponents(fd, dg, rg, 1, {})),
   largest_component_size |->
     LargestComponentSize(ConnectedComponents(fd, dg, rg, 1, {}))]

\* _calculate_dependency_metrics(), called when analyze() is at `at`.
CalculateMetrics(at, next) ==
  /\ pc = at
  /\ metrics' = MetricsResult(file_data, dependency_graph, reverse_dependency_graph)
  /\ pc' = next
  /\ UNCHANGED <<scanner, binary_calls, generator, disk, adapter_calls, jsdoc, file_data, parser_results, module_mapping, dependency_graph,
                 reverse_dependency_graph, cursor, resolve_call, key_modules, dfs, graph>>

----------------------------------------------------------------------------
(* _create_simplified_graph and _create_directory_level_graph               *)

\* max_nodes: int = 50
DefaultMaxNodes == 50

\* 'root', the name given to the directory of the files at the top.
RootName == <<"r", "o", "o", "t">>

\* os.path.dirname(path) or 'root'
DirOrRoot(path) == IF Dirname(path) = <<>> THEN RootName ELSE Dirname(path)

\* The edge lists of both graphs: one {source, target} entry per member of
\* each adjacency set.
EdgesOf(d) == UNION {{[source |-> d[i].k, target |-> t] : t \in d[i].v} : i \in 1..Len(d)}

\* dir_dependencies: directory -> the other directories its files import from.
DirDependencies(dg) ==
  {[source |-> DirOrRoot(e.source), target |-> DirOrRoot(e.target)] :
     e \in {x \in EdgesOf(dg) : DirOrRoot(x.source) # DirOrRoot(x.target)}}

\* dir_to_files[dir]: the files of a directory, in file_data order.
FilesOfDir(fd, dir) == {i \in 1..Len(fd) : DirOrRoot(fd[i].path) = dir}

\* max(languages.items(), key=lambda x: x[1])[0] if languages else None:
\* the language most files of the directory have, the first one counted
\* among equals.
MainLanguage(fd, dir) ==
  LET tagged == {i \in FilesOfDir(fd, dir) : fd[i].language # NoLanguage}
      Count(l) == Cardinality({i \in tagged : fd[i].language = l})
      First(l) == CHOOSE i \in tagged : fd[i].language = l
                    /\ \A j \in tagged : fd[j].language = l => i <= j
      best == {i \in tagged : \A j \in tagged : Count(fd[j].language) <= Count(fd[i].language)}
  IN IF tagged = {} THEN NoLanguage
     ELSE fd[CHOOSE i \in best : \A j \in best : First(fd[i].language) <= First(fd[j].language)].language

\* _create_directory_level_graph()
DirectoryLevelGraph(fd, dg) ==
  LET deps == DirDependencies(dg)
  IN [returned_by |-> "_create_directory_level_graph",
      nodes |-> {[id |-> dir,
                  label |-> IF Basename(dir) = <<>> THEN RootName ELSE Basename(dir),
                  file_count |-> Cardinality(FilesOfDir(fd, dir)),
                  main_language |-> MainLanguage(fd, dir),
                  dependencies |-> Cardinality({e \in deps : e.source = dir}),
                  dependents |-> Cardinality({e \in deps : e.target = dir})] :
                 dir \in {DirOrRoot(fd[i].path) : i \in 1..Len(fd)}},
      edges |-> deps]

\* The per-file graph of _create_simplified_graph.
FileLevelGraph(fd, dg, rg) ==
  [returned_by |-> "_create_simplified_graph",
   nodes |-> {[id |-> file_path,
               label |-> Basename(file_path),
               language |-> LanguageOfPath(fd, file_path),
               dependencies |-> Cardinality(GetSet(dg, file_path)),
               dependents |-> Cardinality(GetSet(rg, file_path))] :
              file_path \in KeySet(dg) \cup KeySet(rg)},
   edges |-> EdgesOf(dg)]

\* if len(self.dependency_graph) > max_nodes
OverBudget(dg, rg, max_nodes) == Len(dg) > max_nodes

\* _create_simplified_graph(max_nodes)
SimplifiedGraphResult(fd, dg, rg, max_nodes) ==
  IF OverBudget(dg, rg, max_nodes)
  THEN DirectoryLevelGraph(fd, dg)
  ELSE FileLevelGraph(fd, dg, rg)

\* _create_simplified_graph(max_nodes), called when analyze() is at `at`.
CreateSimplifiedGraph(at, max_nodes, next) ==
  /\ pc = at
  /\ graph' = [max_nodes |-> max_nodes,
               result |-> SimplifiedGraphResult(file_data, dependency_graph,
                            reverse_dependency_graph, max_nodes)]
  /\ pc' = next
  /\ UNCHANGED <<scanner, binary_calls, generator, disk, adapter_calls, jsdoc, file_data, parser_results, module_mapping, dependency_graph,
                 reverse_dependency_graph, cursor, resolve_call, key_modules, dfs, metrics>>

\* _create_directory_level_graph(), called on its own when the analyser is
\* at `at`.
CreateDirectoryLevelGraph(at, next) ==
  /\ pc = at
  /\ graph' = [result |-> DirectoryLevelGraph(file_data, dependency_graph)]
  /\ pc' = next
  /\ UNCHANGED <<scanner, binary_calls, generator, disk, adapter_calls, jsdoc, file_data, parser_results, module_mapping, dependency_graph,
                 reverse_dependency_graph, cursor, resolve_call, key_modules, dfs, metrics>>

----------------------------------------------------------------------------
(* JavaScriptParser._extract_jsdoc_comment                                  *)
(*                                                                          *)
(* An adapter's content is the list of its lines (content.splitlines()),    *)
(* each a sequence of characters.                                           *)

BlockOpen == <<"/", "*", "*">>
BlockClose == <<"*", "/">>

RECURSIVE FindBlockClose(_, _)
\* The first loop: from the 0-based index current_line upward, the index of
\* the first line whose stripped text ends with the closing marker; -1 when
\* the loop ends without a break.
FindBlockClose(lines, current_line) ==
  IF ~(current_line >= 0 /\ current_line < Len(lines)) THEN -1
  ELSE IF EndsWith(Strip(lines[current_line + 1]), BlockClose) THEN current_line
  ELSE FindBlockClose(lines, current_line - 1)

RECURSIVE FindBlockOpen(_, _)
\* The second loop: from the 0-based index current_line upward, the index
\* of the first line whose stripped text starts with the opening marker; -1
\* when the loop ends without returning.
FindBlockOpen(lines, current_line) ==
  IF ~(current_line >= 0 /\ current_line < Len(lines)) THEN -1
  ELSE IF StartsWith(Strip(lines[current_line + 1]), BlockOpen) THEN current_line
  ELSE FindBlockOpen(lines, current_line - 1)

\* _extract_jsdoc_comment(line_number): None, or the comment built from
\* comment_lines, the stripped lines from the opening line found by the
\* second loop to the closing line found by the first; close_line and
\* open_line are the 1-based numbers of these two lines.
ExtractJsdocComment(content, line_number) ==
  LET close == FindBlockClose(content, line_number - 2)
      open == FindBlockOpen(content, close - 1)
  IN IF content = NoContent THEN [comment |-> FALSE]
     ELSE IF line_number <= 0 \/ line_number > Len(content) THEN [comment |-> FALSE]
     ELSE IF close = -1 THEN [comment |-> FALSE]
     ELSE IF open = -1 THEN [comment |-> FALSE]
     ELSE [comment |-> TRUE,
           open_line |-> open + 1,
           close_line |-> close + 1,
           comment_lines |-> [i \in 1..(close - open + 1) |-> Strip(content[open + i])]]

\* A call of _extract_jsdoc_comment on the adapter's content.
ExtractJsdocCommentCall ==
  /\ pc = "jsdoc"
  /\ jsdoc' = [content |-> jsdoc.content,
               line_number |-> jsdoc.line_number,
               returned |-> TRUE,
               result |-> ExtractJsdocComment(jsdoc.content, jsdoc.line_number)]
  /\ pc' = "done"
  /\ UNCHANGED <<scanner, binary_calls, generator, disk, adapter_calls, file_data, parser_results, module_mapping,
                 dependency_graph, reverse_dependency_graph, cursor, resolve_call,
                 key_modules, dfs, metrics, graph>>

----------------------------------------------------------------------------
(* The language adapters: constructing one and calling parse()              *)
(*                                                                          *)
(* An adapter call gives [raised |-> "None", result |-> the record parse()  *)
(* returned], or [raised |-> the exception that reached the caller]. The    *)
(* records carry the fields the rest of the model reads.                    *)

\* GenericParser._read_file: the text of the file, None when reading fails.
ReadFile(file) == IF file.readable THEN file.lines ELSE NoContent

ImportKeyword == <<"i", "m", "p", "o", "r", "t", " ">>

\* The line is a statement "import <name>".
IsImportStatement(line) == StartsWith(line, ImportKeyword) /\ Len(line) > Len(ImportKeyword)

\* ast.parse(content), for the texts of the model: a line that is no
\* statement is a syntax error; a text of statements gives a tree, unless
\* the conversion of an expression exhausts the recursion limit.
AstParse(content) ==
  IF \E i \in 1..Len(content) : ~IsImportStatement(content[i]) /\ content[i] # DeepLine
  THEN "SyntaxError"
  ELSE IF \E i \in 1..Len(content) : content[i] = DeepLine THEN "RecursionError"
  ELSE "tree"

\* PythonParser.extract_imports: one record per import statement.
PythonImports(content) ==
  LET statements == SelectSeq(content, IsImportStatement)
  IN [i \in 1..Len(statements) |-> PyImport(Drop(statements[i], Len(ImportKeyword)))]

\* PythonParser(abs_path).parse(): __init__ parses a content that is there
\* and catches SyntaxError only; parse() answers a missing tree with the
\* error record.
PythonParser(content) ==
  IF content = NoContent
  THEN [raised |-> "None", result |-> [error |-> "Could not parse file"]]
  ELSE IF AstParse(content) = "tree"
       THEN [raised |-> "None", result |-> [imports |-> PythonImports(content)]]
  ELSE IF AstParse(content) = "SyntaxError"
       THEN [raised |-> "None", result |-> [error |-> "Could not parse file"]]
  ELSE [raised |-> AstParse(content)]

\* A character of \w, among the characters the model's lines use.
IsWordChar(c) == c \notin {" ", "{", "}", "(", ")", "*", "/", ";", ":", "=", "+", "."}

\* class_pattern.search(line), without the extends clause: 'class', blanks,
\* a name, blanks, '{'.
IsClassDeclaration(line) ==
  \E i \in 1..Len(line) : \E n \in (i + 6)..Len(line) : \E j \in (n + 1)..Len(line) :
    /\ SubSeq(line, i, i + 5) = <<"c", "l", "a", "s", "s", " ">>
    /\ \A k \in (i + 6)..n : IsWordChar(line[k])
    /\ \A k \in (n + 1)..(j - 1) : line[k] = " "
    /\ line[j] = "{"

\* JavaScriptParser.extract_classes: one record per class declaration, with
\* its 1-based line number.
ExtractClasses(content) ==
  LET declared == {i \in 1..Len(content) : IsClassDeclaration(content[i])}
      Nth(n) == CHOOSE i \in declared : Cardinality({j \in declared : j < i}) = n - 1
  IN [n \in 1..Cardinality(declared) |-> [line_number |-> Nth(n)]]

\* JavaScriptParser(abs_path).parse(): the error record for a content that
\* is missing or empty. The texts of the model hold neither an import
\* statement nor a function declaration.
JavaScriptParser(content) ==
  IF content = NoContent
  THEN [raised |-> "None", result |-> [error |-> "Could not read file"]]
  ELSE [raised |-> "None",
        result |-> [imports |-> <<>>, functions |-> <<>>,
                    classes |-> ExtractClasses(content)]]

\* line.count(c)
CountChar(line, c) == Cardinality({i \in 1..Len(line) : line[i] = c})

RECURSIVE ClassBodyEnd(_, _, _, _)
\* The brace scan of _enhance_classes_with_types from the 1-based line i,
\* with the braces open so far and whether class_body_start is set: the
\* line at which the loop breaks, 0 when it ends without a break.
ClassBodyEnd(lines, i, open_braces, started) ==
  IF i > Len(lines) THEN 0
  ELSE LET opened == open_braces + CountChar(lines[i], "{")
           closed == opened - CountChar(lines[i], "}")
           now_started == started \/ CountChar(lines[i], "{") > 0
       IN IF CountChar(lines[i], "}") > 0 /\ closed = 0 /\ now_started
          THEN i
          ELSE ClassBodyEnd(lines, i + 1, closed, now_started)

RECURSIVE EnhanceClassesRaises(_, _, _, _)
\* Whether _enhance_classes_with_types raises from class k on: the local
\* class_body_end (0: not yet assigned) keeps the value an earlier class
\* gave it, and reading it unassigned raises UnboundLocalError.
EnhanceClassesRaises(lines, classes, k, class_body_end) ==
  IF k > Len(classes) THEN FALSE
  ELSE LET from == classes[k].line_number
           found == ClassBodyEnd(lines, from, 0, FALSE)
           body_end == IF found # 0 THEN found ELSE class_body_end
           has_start == \E i \in from..Len(lines) : CountChar(lines[i], "{") > 0
       IN IF ~has_start THEN EnhanceClassesRaises(lines, classes, k + 1, body_end)
          ELSE IF body_end = 0 THEN TRUE
          ELSE EnhanceClassesRaises(lines, classes, k + 1, body_end)

\* The property pattern of _enhance_classes_with_types, without the
\* modifiers: from the start of the line blanks, a name, blanks, ':'.
IsPropertyLine(line) ==
  LET body == LStrip(line, " ")
  IN \E n \in 1..Len(body) : \E j \in (n + 1)..Len(body) :
       /\ \A k \in 1..n : IsWordChar(body[k])
       /\ \A k \in (n + 1)..(j - 1) : body[k] = " "
       /\ body[j] = ":"

\* properties: one record per property line among the lines
\* class_body_start..class_body_end, with its 1-based line number.
PropertiesIn(lines, class_body_start, class_body_end) ==
  LET hits == {i \in class_body_start..class_body_end :
                 i <= Len(lines) /\ IsPropertyLine(lines[i])}
      Nth(n) == CHOOSE i \in hits : Cardinality({j \in hits : j < i}) = n - 1
  IN [n \in 1..Cardinality(hits) |-> [line_number |-> Nth(n)]]

\* cls['properties'] = properties
WithProperties(cls, properties) ==
  [f \in (DOMAIN cls) \cup {"properties"} |->
     IF f = "properties" THEN properties ELSE cls[f]]

RECURSIVE EnhancedClasses(_, _, _, _)
\* The class records from class k on as _enhance_classes_with_types leaves
\* them when it does not raise: every class whose body start is found gets
\* its properties, read between that line and class_body_end, which keeps
\* the value of an earlier class when the braces of this one never balance.
EnhancedClasses(lines, classes, k, class_body_end) ==
  IF k > Len(classes) THEN <<>>
  ELSE LET from == classes[k].line_number
           found == ClassBodyEnd(lines, from, 0, FALSE)
           body_end == IF found # 0 THEN found ELSE class_body_end
           starts == {i \in from..Len(lines) : CountChar(lines[i], "{") > 0}
           class_body_start == CHOOSE i \in starts : \A j \in starts : i <= j
       IN <<IF starts = {} THEN classes[k]
            ELSE WithProperties(classes[k],
                                PropertiesIn(lines, class_body_start, body_end))>>
          \o EnhancedClasses(lines, classes, k + 1, body_end)

\* The keys TypeScriptParser.parse adds to the record.
TypeScriptKeys == {"interfaces", "types", "decorators"}

\* TypeScriptParser(abs_path).parse(): the JavaScript record with the added
\* keys and the enhanced classes; result['functions'] raises KeyError on the
\* error record. The texts of the model hold no interface, type alias or
\* decorator.
TypeScriptParser(content) ==
  LET js == JavaScriptParser(content).result
  IN IF "functions" \notin DOMAIN js THEN [raised |-> "KeyError"]
     ELSE IF content # NoContent /\ js.classes # <<>>
             /\ EnhanceClassesRaises(content, js.classes, 1, 0)
          THEN [raised |-> "UnboundLocalError"]
     ELSE [raised |-> "None",
           result |-> [f \in (DOMAIN js) \cup TypeScriptKeys |->
                         IF f \in TypeScriptKeys THEN <<>>
                         ELSE IF f = "classes"
                              THEN EnhancedClasses(content, js.classes, 1, 0)
                              ELSE js[f]]]

\* The languages _parse_files has an adapter for.
AdapterLanguages == {"python", "javascript", "typescript"}

\* The adapter _parse_files constructs for the language, applied to the
\* file's content; for any other language there is no adapter and no call.
Adapter(language, content) ==
  CASE language = "python" -> PythonParser(content)
    [] language = "javascript" -> JavaScriptParser(content)
    [] language = "typescript" -> TypeScriptParser(content)
    [] OTHER -> [raised |-> "None"]

\* The adapter of a language constructed on the one file of the disk and
\* asked to parse(), once for each language.
ParseWith(language) ==
  /\ pc = "adapters"
  /\ \A i \in 1..Len(adapter_calls) : adapter_calls[i].language # language
  /\ adapter_calls' = Append(adapter_calls,
                             [file |-> T_ts, language |-> language,
                              outcome |-> Adapter(language, ReadFile(disk[T_ts]))])
  /\ pc' = IF Len(adapter_calls) = 1 THEN "done" ELSE pc
  /\ UNCHANGED <<scanner, binary_calls, generator, disk, jsdoc, file_data, parser_results, module_mapping,
                 dependency_graph, reverse_dependency_graph, cursor, resolve_call,
                 key_modules, dfs, metrics, graph>>

----------------------------------------------------------------------------
(* RepoScanner.is_binary_file                                               *)

\* A mutation of IsBinaryFile that compares the extension as it is written.
IsBinaryFileCaseSensitive(sc, file_path) ==
  \E i \in 1..Len(sc.binary_extensions) :
    sc.binary_extensions[i] = SplitextExt(file_path)

\* _, ext = os.path.splitext(file_path.lower()); ext in self.binary_extensions
IsBinaryFile(sc, file_path) ==
  \E i \in 1..Len(sc.binary_extensions) :
    sc.binary_extensions[i] = SplitextExt(Lower(file_path))

\* scanner.is_binary_file(file_path), for any path.
IsBinaryFileCall ==
  /\ pc = "scanner"
  /\ Len(binary_calls) < MaxBinaryCalls
  /\ \E file_path \in ScannerPaths :
       binary_calls' = Append(binary_calls,
                              [file_path |-> file_path,
                               result |-> IsBinaryFile(scanner, file_path)])
  /\ UNCHANGED <<scanner, generator, disk, adapter_calls, jsdoc, file_data,
                 parser_results, module_mapping, dependency_graph,
                 reverse_dependency_graph, pc, cursor, resolve_call, key_modules,
                 dfs, metrics, graph>>

----------------------------------------------------------------------------
(* DocumentGenerator._ensure_document_size                                  *)

RECURSIVE JoinSections(_)
\* '\n\n'.join(sections)
JoinSections(sections) ==
  IF sections = <<>> THEN <<>>
  ELSE IF Len(sections) = 1 THEN sections[1]
  ELSE sections[1] \o <<"\n", "\n">> \o JoinSections(Tail(sections))

\* The number of bytes of a character in UTF-8, for the characters of the
\* model's sections.
Utf8Bytes(c) == IF c = "é" THEN 2 ELSE 1

\* len(text.encode('utf-8')): a byte for every character, and one more for
\* every character that takes two.
Utf8Size(text) ==
  Len(text) + Cardinality({i \in 1..Len(text) : Utf8Bytes(text[i]) = 2})

\* len(document_text.encode('utf-8')) for the sections as they are.
DocumentSize(sections) == Utf8Size(JoinSections(sections))

\* The entry of _ensure_document_size: it returns at once when the document
\* fits.
EnsureDocumentSize ==
  /\ pc = "ensure"
  /\ pc' = IF DocumentSize(generator.document) <= generator.max_size
           THEN "returned" ELSE "truncating"
  /\ UNCHANGED <<scanner, binary_calls, generator, disk, adapter_calls, jsdoc,
                 file_data, parser_results, module_mapping, dependency_graph,
                 reverse_dependency_graph, cursor, resolve_call, key_modules,
                 dfs, metrics, graph>>

\* while len(document_text.encode('utf-8')) > self.max_size and self.document
LoopContinues(sections, max_size) ==
  DocumentSize(sections) > max_size /\ sections # <<>>

\* One iteration of the loop: self.document.pop()
PopSection ==
  /\ pc = "truncating"
  /\ LoopContinues(generator.document, generator.max_size)
  /\ generator' = [generator EXCEPT !.document = Take(@, Len(@) - 1)]
  /\ UNCHANGED <<scanner, binary_calls, disk, adapter_calls, jsdoc, file_data,
                 parser_results, module_mapping, dependency_graph,
                 reverse_dependency_graph, pc, cursor, resolve_call, key_modules,
                 dfs, metrics, graph>>

\* After the loop: the note about the truncation is appended, and the
\* function returns.
AppendTruncationNote ==
  /\ pc = "truncating"
  /\ ~LoopContinues(generator.document, generator.max_size)
  /\ generator' = [generator EXCEPT !.document = Append(@, TruncationNote)]
  /\ pc' = "returned"
  /\ UNCHANGED <<scanner, binary_calls, disk, adapter_calls, jsdoc, file_data,
                 parser_results, module_mapping, dependency_graph,
                 reverse_dependency_graph, cursor, resolve_call, key_modules,
                 dfs, metrics, graph>>

----------------------------------------------------------------------------
(* RepositoryAnalyzer.analyze and _parse_files                              *)

\* d[key] = value on a dict that keeps insertion order.
SetItem(d, key, value) ==
  IF Has(d, key)
  THEN [i \in 1..Len(d) |-> IF d[i].k = key THEN [k |-> key, v |-> value] ELSE d[i]]
  ELSE Append(d, [k |-> key, v |-> value])

\* The exceptions of the adapters, all subclasses of Exception.
AdapterExceptions == {"RecursionError", "KeyError", "UnboundLocalError"}

\* A mutation of CaughtPerFile whose handler takes syntax errors only.
CaughtPerFileSyntaxOnly(raised) == raised = "SyntaxError"

\* "except Exception" around one file's adapter in _parse_files.
CaughtPerFile(raised) == raised \in AdapterExceptions \cup {"SyntaxError"}

\* One iteration of "for file_info in self.file_data" of _parse_files: the
\* file goes to the adapter of its language, if there is one; what parse()
\* returns is stored, what the adapter raises is logged. An exception the
\* handler does not take ends analyze() in its own handler ("return False").
\* After the last file _parse_files returns.
ParseFileStep ==
  /\ pc = "parsing"
  /\ cursor.file <= Len(file_data)
  /\ \E file_info \in {file_data[cursor.file]} :
       \E outcome \in {Adapter(file_info.language, ReadFile(disk[file_info.path]))} :
         /\ adapter_calls' =
              IF file_info.language \in AdapterLanguages
              THEN Append(adapter_calls, [file |-> file_info.path, outcome |-> outcome])
              ELSE adapter_calls
         /\ parser_results' =
              IF file_info.language \in AdapterLanguages /\ outcome.raised = "None"
              THEN SetItem(parser_results, file_info.path, outcome.result)
              ELSE parser_results
         /\ pc' = IF outcome.raised # "None" /\ ~CaughtPerFile(outcome.raised)
                  THEN "failed"
                  ELSE IF cursor.file < Len(file_data) THEN pc ELSE "structure"
  /\ cursor' = [file |-> cursor.file + 1, import |-> 1]
  /\ UNCHANGED <<scanner, binary_calls, generator, disk, jsdoc, file_data, module_mapping, dependency_graph,
                 reverse_dependency_graph, resolve_call, key_modules, dfs, metrics, graph>>

\* _analyze_structure(): the structure analysis reads file_data and stores
\* its result in analysis_results, which the model does not hold.
AnalyzeStructure ==
  /\ pc = "structure"
  /\ pc' = "dependencies"
  /\ UNCHANGED <<scanner, binary_calls, generator, disk, adapter_calls, jsdoc, file_data, parser_results, module_mapping,
                 dependency_graph, reverse_dependency_graph, cursor, resolve_call,
                 key_modules, dfs, metrics, graph>>

\* _analyze_dependencies(): a DependencyAnalyzer is constructed over
\* file_data and parser_results, and its analyze() starts.
AnalyzeDependencies ==
  /\ pc = "dependencies"
  /\ module_mapping' = <<>>
  /\ dependency_graph' = <<>>
  /\ reverse_dependency_graph' = <<>>
  /\ cursor' = [file |-> 1, import |-> 1]
  /\ pc' = "mapping"
  /\ UNCHANGED <<scanner, binary_calls, generator, disk, adapter_calls, jsdoc, file_data, parser_results, resolve_call,
                 key_modules, dfs, metrics, graph>>

\* _analyze_apis(): the API analysis reads the fact records it finds and
\* stores its result in analysis_results.
AnalyzeApis ==
  /\ pc = "apis"
  /\ pc' = "document"
  /\ UNCHANGED <<scanner, binary_calls, generator, disk, adapter_calls, jsdoc, file_data, parser_results, module_mapping,
                 dependency_graph, reverse_dependency_graph, cursor, resolve_call,
                 key_modules, dfs, metrics, graph>>

\* _generate_document(), and "return True".
GenerateDocument ==
  /\ pc = "document"
  /\ pc' = "finished"
  /\ UNCHANGED <<scanner, binary_calls, generator, disk, adapter_calls, jsdoc, file_data, parser_results, module_mapping,
                 dependency_graph, reverse_dependency_graph, cursor, resolve_call,
                 key_modules, dfs, metrics, graph>>

----------------------------------------------------------------------------
(* DependencyAnalyzer.analyze(): the stages in the order of the code, with  *)
(* the default threshold and node budget.                                   *)

Next ==
  \/ BuildModuleMappingStep
  \/ BuildGraphStep
  \/ IdentifyKeyModules("built", DefaultThreshold, "cycles")
  \/ FindCyclesOuter
  \/ DfsNeighbor
  \/ DfsReturn
  \/ FindCyclesReturn("metrics")
  \/ CalculateMetrics("metrics", "simplified")
  \/ CreateSimplifiedGraph("simplified", DefaultMaxNodes, "done")

Spec == Init /\ [][Next]_vars

\* _build_module_mapping() and _build_dependency_graph() over a repository
\* with directories.
NextBuild == BuildModuleMappingStep \/ BuildGraphStep

SpecResolve == InitNested /\ [][NextBuild]_vars

\* The same two stages over a repository whose imports go into a package.
SpecSubmodules == InitSubmodules /\ [][NextBuild]_vars

\* The thresholds _identify_key_modules is called with.
Thresholds == (1..MaxThreshold) \cup {DefaultThreshold}

\* _identify_key_modules(threshold) on the built graph, for any threshold.
NextKeyModules ==
  \/ BuildModuleMappingStep
  \/ BuildGraphStep
  \/ \E threshold \in Thresholds : IdentifyKeyModules("built", threshold, "done")

SpecKeyModules == Init /\ [][NextKeyModules]_vars

\* The node budgets _create_simplified_graph is called with.
NodeBudgets == (1..MaxNodeBudget) \cup {DefaultMaxNodes}

\* _create_simplified_graph(max_nodes) on the built graph, for any budget.
NextSimplified ==
  \/ BuildModuleMappingStep
  \/ BuildGraphStep
  \/ \E max_nodes \in NodeBudgets : CreateSimplifiedGraph("built", max_nodes, "done")

SpecSimplified == Init /\ [][NextSimplified]_vars

\* The two build stages and every analytics function, one after the other,
\* over a repository with packages: _identify_key_modules with the smallest
\* and the default threshold, _create_simplified_graph with the default
\* budget, and _create_directory_level_graph called on its own.
NextPackages ==
  \/ BuildModuleMappingStep
  \/ BuildGraphStep
  \/ \E threshold \in {1, DefaultThreshold} : IdentifyKeyModules("built", threshold, "cycles")
  \/ FindCyclesOuter
  \/ DfsNeighbor
  \/ DfsReturn
  \/ FindCyclesReturn("metrics")
  \/ CalculateMetrics("metrics", "simplified")
  \/ CreateSimplifiedGraph("simplified", DefaultMaxNodes, "directory")
  \/ CreateDirectoryLevelGraph("directory", "done")

SpecPackages == InitPackages /\ [][NextPackages]_vars

\* RepositoryAnalyzer.analyze() after the scan, with the default focus:
\* _parse_files, the structure analysis, the dependency analysis, the API
\* analysis and the document.
NextMain ==
  \/ ParseFileStep
  \/ AnalyzeStructure
  \/ AnalyzeDependencies
  \/ BuildModuleMappingStep
  \/ BuildGraphStep
  \/ IdentifyKeyModules("built", DefaultThreshold, "cycles")
  \/ FindCyclesOuter
  \/ DfsNeighbor
  \/ DfsReturn
  \/ FindCyclesReturn("metrics")
  \/ CalculateMetrics("metrics", "simplified")
  \/ CreateSimplifiedGraph("simplified", DefaultMaxNodes, "apis")
  \/ AnalyzeApis
  \/ GenerateDocument

SpecMain == InitMain /\ [][NextMain]_vars

\* _extract_jsdoc_comment(line_number) on a JavaScript file.
NextJsdoc == ExtractJsdocCommentCall

SpecJsdoc == InitJsdoc /\ [][NextJsdoc]_vars

\* The JavaScript and the TypeScript adapter on the same file, in any order.
NextAdapters == \E language \in {"javascript", "typescript"} : ParseWith(language)

SpecAdapters == InitAdapters /\ [][NextAdapters]_vars

\* _ensure_document_size() on a written document.
NextGenerator == EnsureDocumentSize \/ PopSection \/ AppendTruncationNote

SpecGenerator == InitGenerator /\ [][NextGenerator]_vars

\* is_binary_file called on a scanner, a few times.
NextScanner == IsBinaryFileCall

SpecScanner == InitScanner /\ [][NextScanner]_vars

----------------------------------------------------------------------------
(* Properties                                                               *)

\* _build_dependency_graph has returned.
GraphBuilt == pc \notin {"mapping", "graph"}

\* _find_circular_dependencies has returned.
CyclesReported == pc \in {"metrics", "simplified", "done"}

\* The files and directories that appear in the graph.
GraphNodes == KeySet(dependency_graph) \cup KeySet(reverse_dependency_graph)

\* c, a list of distinct nodes, is an elementary cycle of the forward graph.
IsCycle(c) ==
  \A i \in 1..Len(c) : c[(i % Len(c)) + 1] \in GetSet(dependency_graph, c[i])

\* The elementary cycles of the forward graph, each in all its rotations.
ElementaryCycles == {c \in ListsOf(GraphNodes, Cardinality(GraphNodes)) : IsCycle(c)}

\* chain is the cycle c, started at one of its nodes and closed on it.
IsRotationOf(chain, c) ==
  /\ Len(chain) = Len(c) + 1
  /\ chain[Len(chain)] = chain[1]
  /\ \E off \in 0..(Len(c) - 1) :
       \A i \in 1..Len(c) : chain[i] = c[((i - 1 + off) % Len(c)) + 1]

\* The number of reported chains that are rotations of the cycle c.
TimesReported(c) ==
  Cardinality({i \in 1..Len(dfs.circular_deps) : IsRotationOf(dfs.circular_deps[i], c)})

\* C1: when _find_circular_dependencies has returned, every elementary
\* cycle of the forward graph has been reported: some reported chain is a
\* rotation of it.
C1_EveryCycleReported ==
  CyclesReported => \A c \in ElementaryCycles : TimesReported(c) >= 1

\* The forward graph is exactly x -> y, y -> z, z -> x over the three files.
IsTriangle ==
  /\ Len(dependency_graph) = 3
  /\ \A i \in 1..3 : Cardinality(dependency_graph[i].v) = 1
  /\ \E c \in ElementaryCycles : Len(c) = 3

\* C2: when the forward graph is exactly a three-file cycle, the report
\* holds exactly one chain and it is a rotation of that cycle, whatever the
\* order of the outer loop and of the neighbours.
C2_TriangleReportedOnce ==
  (CyclesReported /\ IsTriangle) =>
    /\ Len(dfs.circular_deps) = 1
    /\ \A c \in ElementaryCycles : TimesReported(c) = 1

\* C2's case: a three-file cycle whose first key is not the first file, and
\* its report.
C2_Witness ==
  /\ pc = "done"
  /\ IsTriangle
  /\ dependency_graph[1].k = C_py
  /\ Len(dfs.circular_deps) = 1

\* The (file, token) pairs of the fact records, without their order.
ImportPairs ==
  UNION {{<<parser_results[i].k, ModuleNameOf(parser_results[i].v.imports[j])>> :
            j \in 1..Len(parser_results[i].v.imports)} :
         i \in {n \in 1..Len(parser_results) : "imports" \in DOMAIN parser_results[n].v}}

\* The edges the resolver gives for the import pairs, taken as a set against
\* the finished module index.
ExpectedEdges ==
  {[source |-> p[1], target |-> ResolveImport(module_mapping, file_data, p[1], p[2])] :
     p \in {q \in ImportPairs :
              /\ Truthy(q[2])
              /\ ~IsExternal(q[2])
              /\ Truthy(ResolveImport(module_mapping, file_data, q[1], q[2]))}}

\* The edges of the reverse adjacency, turned back to (source, target).
ReverseEdges ==
  UNION {{[source |-> s, target |-> reverse_dependency_graph[i].k] :
            s \in reverse_dependency_graph[i].v} :
         i \in 1..Len(reverse_dependency_graph)}

\* C3: the forward and reverse edge sets _build_dependency_graph leaves are
\* the ones the unordered set of (file, token) pairs determines, so any two
\* processing orders of the same fact records give the same edge sets.
C3_EdgeSetOrderIndependent ==
  GraphBuilt => /\ EdgesOf(dependency_graph) = ExpectedEdges
                /\ ReverseEdges = ExpectedEdges

\* C3's case: the entries are not in file order, the first one holds two
\* different imports in descending order, and the graph has three edges.
C3_Witness ==
  /\ pc = "done"
  /\ parser_results[1].k = C_py
  /\ Len(parser_results[1].v.imports) = 2
  /\ parser_results[1].v.imports[1].name = <<"b">>
  /\ parser_results[1].v.imports[2].name = <<"a">>
  /\ Cardinality(EdgesOf(dependency_graph)) = 3

IsPathStyle(token) == DotCount(token) < Len(token) /\ token[DotCount(token) + 1] = "/"

RECURSIVE WalkPath(_, _)
\* The path a path-style token names from a directory: '.' stays, '..'
\* goes to the parent, any other segment goes down.
WalkPath(dir, token) ==
  LET seg == SplitHead(token)
      here == IF seg = <<".">> THEN dir
              ELSE IF seg = <<".", ".">> THEN Dirname(dir)
              ELSE Join(dir, seg)
  IN IF SplitCount(token) = 1 THEN here ELSE WalkPath(here, SplitTail(token))

\* The extension-less path the token of an import in `file` designates:
\* a path-style token is walked from the file's directory, a Python-style
\* relative token names a module of the package DotCount - 1 levels up, and
\* an absolute token names a module at the top of the repository (or a
\* library outside it).
DesignatedPath(file, token) ==
  IF IsPathStyle(token) THEN WalkPath(Dirname(file), token)
  ELSE IF StartsWith(token, <<".">>)
       THEN Join(DirnameTimes(Dirname(file), DotCount(token) - 1),
                 Drop(token, DotCount(token)))
  ELSE token

\* The import of `token` in `file` genuinely designates the file `target`.
Designates(file, token, target) == SplitextRoot(target) = DesignatedPath(file, token)

\* C5: the graph holds an edge (f, f) only if f has an import whose token
\* designates f itself, and no import of f that designates another module
\* resolves to f.
C5_SelfEdgeOnlyIfGenuine ==
  /\ \A i \in 1..Len(dependency_graph) :
       dependency_graph[i].k \in dependency_graph[i].v =>
         \E p \in ImportPairs : /\ p[1] = dependency_graph[i].k
                                /\ Designates(p[1], p[2], p[1])
  /\ resolve_call.result = resolve_call.importing_file /\ resolve_call # NoCall =>
       Designates(resolve_call.importing_file, resolve_call.import_path,
                  resolve_call.importing_file)

\* The number of leading path-up markers of a relative token: the '../'
\* groups of a path-style token, the dots of a Python-style one.
RECURSIVE UpMarkers(_)
UpMarkers(token) ==
  IF IsPathStyle(token)
  THEN IF StartsWith(token, <<".", ".", "/">>) THEN 1 + UpMarkers(Drop(token, 3)) ELSE 0
  ELSE DotCount(token)

RECURSIVE AfterMarkers(_)
\* What is left of a relative token once its leading markers are stripped.
AfterMarkers(token) ==
  IF IsPathStyle(token)
  THEN IF StartsWith(token, <<".", ".", "/">>) THEN AfterMarkers(Drop(token, 3))
       ELSE IF StartsWith(token, <<".", "/">>) THEN AfterMarkers(Drop(token, 2))
       ELSE token
  ELSE Drop(token, DotCount(token))

\* The directory depth of a file: the number of directories above it.
Depth(file) == Cardinality({i \in 1..Len(file) : file[i] = "/"})

\* C6: a _resolve_import call with a relative token of k >= 1 path-up
\* markers, from a file at depth d >= k - 1, uses as base directory the
\* ancestor k - 1 levels above the file's directory and looks up the token
\* with all its markers stripped.
C6_RelativeBaseAndStrip ==
  LET k == UpMarkers(resolve_call.import_path)
  IN (/\ resolve_call # NoCall
      /\ StartsWith(resolve_call.import_path, <<".">>)
      /\ k >= 1
      /\ Depth(resolve_call.importing_file) >= k - 1) =>
       /\ resolve_call.base_dir = DirnameTimes(Dirname(resolve_call.importing_file), k - 1)
       /\ resolve_call.rel_path = AfterMarkers(resolve_call.import_path)

\* _identify_key_modules has returned.
KeyModulesReturned == key_modules # <<>>

\* C7: the entries _identify_key_modules returns are in descending order of
\* dependents_count, and entries with equal counts are in ascending lexical
\* order of their paths.
C7_KeyModulesOrder ==
  KeyModulesReturned =>
    \A i, j \in 1..Len(key_modules.result) :
      i < j =>
        \/ key_modules.result[i].dependents_count > key_modules.result[j].dependents_count
        \/ /\ key_modules.result[i].dependents_count = key_modules.result[j].dependents_count
           /\ StrLess(key_modules.result[i].path, key_modules.result[j].path)

\* C8: the paths _identify_key_modules(t) returns are exactly the keys of
\* the reverse adjacency with at least t dependents, each once and with the
\* size of its dependent set as dependents_count.
C8_KeyModulesThreshold ==
  KeyModulesReturned =>
    /\ {key_modules.result[i].path : i \in 1..Len(key_modules.result)}
         = {k \in KeySet(reverse_dependency_graph) :
              Cardinality(Lookup(reverse_dependency_graph, k)) >= key_modules.threshold}
    /\ \A i, j \in 1..Len(key_modules.result) :
         key_modules.result[i].path = key_modules.result[j].path => i = j
    /\ \A i \in 1..Len(key_modules.result) :
         key_modules.result[i].dependents_count
           = Cardinality(Lookup(reverse_dependency_graph, key_modules.result[i].path))

\* C8's case: with threshold 2, a module with exactly two dependents is
\* returned and a module with one dependent is not.
C8_Witness ==
  /\ KeyModulesReturned
  /\ key_modules.threshold = 2
  /\ Len(key_modules.result) = 1
  /\ key_modules.result[1].dependents_count = 2
  /\ Len(reverse_dependency_graph) = 2

\* _calculate_dependency_metrics has returned.
MetricsReturned == metrics # <<>>

\* C9: isolated_files is the number of files of the file list that are a
\* key of neither the forward nor the reverse adjacency.
C9_IsolatedFiles ==
  MetricsReturned =>
    metrics.isolated_files =
      Cardinality({i \in 1..Len(file_data) :
                     /\ ~Has(dependency_graph, file_data[i].path)
                     /\ ~Has(reverse_dependency_graph, file_data[i].path)})

\* _create_simplified_graph has returned.
GraphReturned == graph # <<>>

\* C10: when the per-file graph has more nodes than the budget, the
\* directory-level graph is returned; a per-file graph that is returned has
\* at most as many nodes as the budget.
C10_BudgetRespected ==
  GraphReturned =>
    /\ Cardinality(GraphNodes) > graph.max_nodes =>
         graph.result.returned_by = "_create_directory_level_graph"
    /\ graph.result.returned_by = "_create_simplified_graph" =>
         Cardinality(graph.result.nodes) <= graph.max_nodes

\* _create_directory_level_graph has returned.
DirectoryGraphReturned ==
  GraphReturned /\ graph.result.returned_by = "_create_directory_level_graph"

\* The ids of the nodes of the returned graph.
NodeIds == {n.id : n \in graph.result.nodes}

\* The directories of the file list, the top one under the name 'root'.
DirectoriesOfFiles == {DirOrRoot(file_data[i].path) : i \in 1..Len(file_data)}

\* C11: the graph _create_directory_level_graph returns has exactly one
\* node per distinct directory of the file list; it has an edge d1 -> d2 if
\* and only if d1 # d2 and some forward edge leads from directory d1 into
\* directory d2; no edge joins a directory to itself, and both endpoints of
\* every edge are nodes of the graph.
C11_DirectoryGraph ==
  DirectoryGraphReturned =>
    /\ NodeIds = DirectoriesOfFiles
    /\ Cardinality(graph.result.nodes) = Cardinality(DirectoriesOfFiles)
    /\ \A d1, d2 \in DirectoriesOfFiles
                     \cup {DirOrRoot(e.source) : e \in EdgesOf(dependency_graph)}
                     \cup {DirOrRoot(e.target) : e \in EdgesOf(dependency_graph)} :
         [source |-> d1, target |-> d2] \in graph.result.edges <=>
           /\ d1 # d2
           /\ \E e \in EdgesOf(dependency_graph) :
                DirOrRoot(e.source) = d1 /\ DirOrRoot(e.target) = d2
    /\ \A e \in graph.result.edges :
         e.source # e.target /\ e.source \in NodeIds /\ e.target \in NodeIds

\* C12: _extract_jsdoc_comment(n) returns a documentation block only when
\* the closing line of the block is line n - 1; with blank lines or lines of
\* code between the block and line n it returns None.
C12_JsdocOnlyWhenAdjacent ==
  (jsdoc.returned /\ jsdoc.result.comment) =>
    jsdoc.result.close_line = jsdoc.line_number - 1

\* _parse_files has returned.
FilesParsed == pc \notin {"parsing", "failed"}

\* The scanned files whose language has an adapter.
AdaptedFiles ==
  {file_data[i].path : i \in {n \in 1..Len(file_data) :
                                file_data[n].language \in AdapterLanguages}}

\* C13: when _parse_files has returned, parser_results holds an entry for
\* every scanned file whose language is python, javascript or typescript,
\* also those whose adapter raised, and no entry for any other file.
C13_EntryForEveryAdaptedFile ==
  FilesParsed => KeySet(parser_results) = AdaptedFiles

\* The adapter calls made so far that raised.
RaisedCalls == {i \in 1..Len(adapter_calls) : adapter_calls[i].outcome.raised # "None"}

\* The file at position i of the file list has been handed to its adapter.
HandedToAdapter(i) ==
  \E j \in 1..Len(adapter_calls) : adapter_calls[j].file = file_data[i].path

\* C14: a failing adapter never aborts the run. analyze() never ends in its
\* own handler; every file with an adapter that _parse_files has passed, and
\* every such file once it has returned, was handed to its adapter, whatever
\* failed before it; and until the document is generated the run always has
\* a next step, so the later stages are reached.
C14_AdapterFailureIsolated ==
  /\ pc # "failed"
  /\ \A i \in 1..Len(file_data) :
       (/\ file_data[i].language \in AdapterLanguages
        /\ (pc # "parsing" \/ i < cursor.file)) => HandedToAdapter(i)
  /\ pc # "finished" => ENABLED NextMain

\* C14's case: the adapter of the first file raised, the file after it was
\* parsed and has its fact record, and the document has been generated.
C14_Witness ==
  /\ pc = "finished"
  /\ Len(adapter_calls) >= 2
  /\ 1 \in RaisedCalls
  /\ 2 \notin RaisedCalls
  /\ Has(parser_results, adapter_calls[2].file)
  /\ "imports" \in DOMAIN Lookup(parser_results, adapter_calls[2].file)

\* The text the adapter of file_path was given is unreadable or malformed:
\* no content, a Python text ast.parse does not turn into a tree, or a
\* TypeScript text with a class whose braces never balance.
Malformed(file_path) ==
  LET content == ReadFile(disk[file_path])
  IN \/ content = NoContent
     \/ LanguageOf(file_path) = "python" /\ AstParse(content) # "tree"
     \/ /\ LanguageOf(file_path) = "typescript"
        /\ \E i \in 1..Len(content) :
             IsClassDeclaration(content[i]) /\ ClassBodyEnd(content, i, 0, FALSE) = 0

\* C15: no adapter call raises to _parse_files, and a call on unreadable or
\* malformed input returns a record with the error marker.
C15_AdaptersNeverRaise ==
  \A i \in 1..Len(adapter_calls) :
    /\ adapter_calls[i].outcome.raised = "None"
    /\ Malformed(adapter_calls[i].file) =>
         "error" \in DOMAIN adapter_calls[i].outcome.result

\* The module index after the first n files of the list have been processed.
RECURSIVE MappingOfPrefix(_, _)
MappingOfPrefix(fd, n) ==
  IF n = 0 THEN <<>> ELSE RegisterFile(MappingOfPrefix(fd, n - 1), fd[n].path)

\* The position of a stage in analyze().
StageRank(stage) ==
  CASE stage = "mapping" -> 1
    [] stage = "graph" -> 2
    [] stage = "built" -> 3
    [] stage = "cycles" -> 4
    [] stage = "metrics" -> 5
    [] stage = "simplified" -> 6
    [] stage = "done" -> 7

\* What holds in every state of analyze(): outside the index build the index
\* is the one of the whole file list, a _resolve_import call has been made
\* only outside it, and a stage that is over has left its result.
StagesInOrderState ==
  /\ pc # "mapping" => module_mapping = MappingOfPrefix(file_data, Len(file_data))
  /\ resolve_call # NoCall => pc # "mapping"
  /\ StageRank(pc) <= 3 => key_modules = <<>>
  /\ StageRank(pc) > 3 => key_modules # <<>>
  /\ StageRank(pc) < 4 => dfs = NoDfs
  /\ StageRank(pc) > 4 => dfs.stack = <<>> /\ dfs.outer = Len(dependency_graph) + 1
  /\ StageRank(pc) <= 5 => metrics = <<>>
  /\ StageRank(pc) > 5 => metrics # <<>>
  /\ StageRank(pc) <= 6 => graph = <<>>
  /\ StageRank(pc) > 6 => graph # <<>>

\* What holds of every step of analyze(): the stages never go back, the
\* index changes only in its build, a resolution and an edge insertion
\* happen only in the graph build, and each analytics result changes only
\* in the one step (for the cycles: the steps of the one stage) that
\* computes it, which comes after the graph build.
StagesInOrderStep ==
  /\ StageRank(pc') >= StageRank(pc)
  /\ module_mapping' # module_mapping => pc = "mapping" /\ resolve_call = NoCall
  /\ resolve_call' # resolve_call => pc = "graph"
  /\ (dependency_graph' # dependency_graph
        \/ reverse_dependency_graph' # reverse_dependency_graph) => pc = "graph"
  /\ key_modules' # key_modules => pc = "built" /\ pc' = "cycles"
  /\ dfs' # dfs => pc = "cycles" /\ pc' = "cycles"
  /\ metrics' # metrics => pc = "metrics" /\ pc' = "simplified"
  /\ graph' # graph => pc = "simplified" /\ pc' = "done"

\* C16: in every run of analyze() the index build, the graph build and the
\* analytics come in this order: _resolve_import is called only when the
\* index holds the whole file list, the index does not change after that,
\* and each analytics step runs exactly once, after the last edge insertion.
C16_StagesInOrder == []StagesInOrderState /\ [][StagesInOrderStep]_vars

\* C16's case: a finished run over three files in which the last file of the
\* list was resolved to and a cycle was reported.
C16_Witness ==
  /\ pc = "done"
  /\ Len(file_data) = 3
  /\ resolve_call.result = file_data[3].path
  /\ Len(dependency_graph) >= 2
  /\ Len(dfs.circular_deps) >= 1
  /\ key_modules # <<>> /\ metrics # <<>> /\ graph # <<>>

\* The token looks like a URL: it holds "://".
IsUrlLike(token) ==
  \E i \in 1..(Len(token) - 2) : SubSeq(token, i, i + 2) = <<":", "/", "/">>

\* The token names a scoped package.
IsScopedPackage(token) == StartsWith(token, <<"@">>)

\* The import records of the fact records whose token is in the module
\* index and is neither URL-like nor a scoped-package name.
IndexedLocalPairs ==
  {p \in ImportPairs : /\ p[2] \in DOMAIN module_mapping
                       /\ ~IsUrlLike(p[2])
                       /\ ~IsScopedPackage(p[2])}

\* C17: no _resolve_import call is ever made for a URL-like or a
\* scoped-package token, and when the graph is built every import of a token
\* that is in the module index and is neither of the two has its edge, also
\* a token that begins with 'http'.
C17_ExternalTokens ==
  /\ resolve_call # NoCall =>
       ~IsUrlLike(resolve_call.import_path) /\ ~IsScopedPackage(resolve_call.import_path)
  /\ GraphBuilt =>
       \A p \in IndexedLocalPairs :
         [source |-> p[1], target |-> module_mapping[p[2]]] \in EdgesOf(dependency_graph)

\* C18: no step of the analytics (_identify_key_modules,
\* _find_circular_dependencies, _calculate_dependency_metrics,
\* _create_simplified_graph, _create_directory_level_graph) changes the
\* forward adjacency, the reverse adjacency, their key sets, the module
\* index or the fact records: from the end of _build_dependency_graph on
\* they keep their values.
C18_AnalyticsReadOnly ==
  [][GraphBuilt => UNCHANGED <<dependency_graph, reverse_dependency_graph,
                               module_mapping, parser_results>>]_vars

\* C18's case: every analytics function has returned, and the cycle search
\* has read the neighbours of a node that is no key of the forward
\* adjacency.
C18_Witness ==
  /\ pc = "done"
  /\ key_modules # <<>> /\ metrics # <<>> /\ graph # <<>>
  /\ \E e \in EdgesOf(dependency_graph) :
       /\ ~Has(dependency_graph, e.target)
       /\ InSeq(dfs.expanded, e.target)

\* An endpoint of an edge of the forward adjacency is no path of the file
\* list.
DanglingEndpoints ==
  {x \in UNION {{e.source, e.target} : e \in EdgesOf(dependency_graph)} :
     x \notin FilePaths(file_data)}

\* C19: when the built graph holds an edge endpoint that is no path of the
\* file list, no analytics function returns a result: neither key modules
\* nor metrics nor a graph comes back.
C19_DanglingEndpointFails ==
  (GraphBuilt /\ DanglingEndpoints # {}) =>
    ~KeyModulesReturned /\ ~MetricsReturned /\ ~GraphReturned

\* The registrations the file list produces, numbered in the order they are
\* made: for the file at position i its base name without the extension
\* (2i - 1) and, for an entry-point file, the name of its directory (2i).
Registrations ==
  {[ord |-> 2 * i - 1,
    name |-> SplitextRoot(Basename(file_data[i].path)),
    value |-> file_data[i].path] : i \in 1..Len(file_data)}
  \cup
  {[ord |-> 2 * i,
    name |-> Basename(Dirname(file_data[i].path)),
    value |-> Dirname(file_data[i].path)] :
     i \in {j \in 1..Len(file_data) :
              Basename(file_data[j].path) \in EntryPointNames \cup {InitPy}}}

\* The registration of a name that is made last.
LastRegistration(name) ==
  CHOOSE r \in Registrations :
    r.name = name /\ \A q \in Registrations : q.name = name => q.ord <= r.ord

\* C20: after _build_module_mapping the index holds exactly the names the
\* file list produces, each with the value of the registration made last in
\* file-list order; being determined by the ordered file list alone, two
\* builds over the same list give the same index.
C20_LastRegistrationWins ==
  pc # "mapping" =>
    /\ DOMAIN module_mapping = {r.name : r \in Registrations}
    /\ \A name \in DOMAIN module_mapping :
         module_mapping[name] = LastRegistration(name).value

\* C20's case: the index is built and a name was produced twice with
\* different values, once as the name of an entry-point file's directory.
C20_Witness ==
  /\ pc = "done"
  /\ \E r, q \in Registrations :
       /\ r.name = q.name
       /\ r.value # q.value
       /\ r.ord % 2 = 0
       /\ r.ord < q.ord
       /\ module_mapping[r.name] = q.value

\* The outcome of the call of the language's adapter, once it is made.
OutcomeOf(language) ==
  adapter_calls[CHOOSE i \in 1..Len(adapter_calls) :
                  adapter_calls[i].language = language].outcome

\* The fields of the baseline record x are fields of y with the same values.
KeepsFields(x, y) ==
  /\ DOMAIN x \subseteq DOMAIN y
  /\ \A f \in DOMAIN x : y[f] = x[f]

\* C21: for the same file the TypeScript adapter returns a record that has
\* every key of the JavaScript record, the same imports and functions, and
\* the same classes in the same order with every baseline field unchanged;
\* it differs only by added fields and added keys.
C21_TypeScriptAdditive ==
  pc = "done" =>
    LET js == OutcomeOf("javascript")
        ts == OutcomeOf("typescript")
    IN /\ ts.raised = "None"
       /\ DOMAIN js.result \subseteq DOMAIN ts.result
       /\ \A f \in (DOMAIN js.result) \ {"classes"} : ts.result[f] = js.result[f]
       /\ "classes" \in DOMAIN js.result =>
            /\ Len(ts.result.classes) = Len(js.result.classes)
            /\ \A k \in 1..Len(js.result.classes) :
                 KeepsFields(js.result.classes[k], ts.result.classes[k])

\* The final extension of a path: what starts at the last '.' of the last
\* segment, when something other than dots comes before it in the segment;
\* empty when there is none.
FinalExtension(path) ==
  LET segment == Drop(path, RFind(path, "/"))
      dots == {i \in 1..Len(segment) : segment[i] = "."}
      last == CHOOSE i \in dots : \A j \in dots : j <= i
  IN IF dots # {} /\ \E k \in 1..(last - 1) : segment[k] # "."
     THEN Drop(segment, last - 1)
     ELSE <<>>

\* C22: is_binary_file answers true exactly when the final extension of the
\* path, lower-cased, is in the binary-extension list of the scanner; the
\* same path always gets the same answer, and no call changes a field of
\* the scanner.
C22_BinaryByExtension ==
  /\ scanner = NoScanner \/ scanner = ScannerConstructed
  /\ \A i \in 1..Len(binary_calls) :
       binary_calls[i].result =
         (Lower(FinalExtension(binary_calls[i].file_path)) \in Range(BinaryExtensions))
  /\ \A i, j \in 1..Len(binary_calls) :
       binary_calls[i].file_path = binary_calls[j].file_path =>
         binary_calls[i].result = binary_calls[j].result

\* C22's case: an upper-case binary extension was answered true, and then a
\* source file in a directory with a binary extension was answered false.
C22_Witness ==
  /\ Len(binary_calls) = 2
  /\ binary_calls[1].file_path = <<"t", "e", "s", "t", ".", "J", "P", "G">>
  /\ binary_calls[1].result = TRUE
  /\ binary_calls[2].file_path = <<"d", ".", "p", "n", "g", "/", "t", "e", "s", "t", ".", "p", "y">>
  /\ binary_calls[2].result = FALSE

\* C23: every _resolve_import call returns None or the path of a file of the
\* file list, and every edge of the graph has such a path as its target:
\* never a directory, never a path outside the list.
C23_TargetsAreFiles ==
  /\ resolve_call.result = NoneVal \/ resolve_call.result \in FilePaths(file_data)
  /\ \A e \in EdgesOf(dependency_graph) : e.target \in FilePaths(file_data)

\* The chain is a cycle of the forward graph written from a start back to
\* it: two entries at least, the same file first and last, an edge from each
\* entry to the next, and no file but the start twice.
IsGenuineCycle(chain) ==
  /\ Len(chain) >= 2
  /\ chain[1] = chain[Len(chain)]
  /\ \A k \in 1..(Len(chain) - 1) : chain[k + 1] \in GetSet(dependency_graph, chain[k])
  /\ \A k, l \in 1..(Len(chain) - 1) : chain[k] = chain[l] => k = l

\* C24: every chain _find_circular_dependencies has reported, at any point
\* of the search, is a genuine cycle of the forward graph.
C24_ChainsAreCycles ==
  \A i \in 1..Len(dfs.circular_deps) : IsGenuineCycle(dfs.circular_deps[i])

\* C24's case: a finished search that reported a self-loop and a cycle that
\* does not start at the first node of the path it was found on.
C24_Witness ==
  /\ pc = "done"
  /\ \E i \in 1..Len(dfs.circular_deps) : Len(dfs.circular_deps[i]) = 2
  /\ \E i \in 1..Len(dfs.circular_deps) :
       /\ Len(dfs.circular_deps[i]) = 3
       /\ dfs.circular_deps[i][1] # dfs.expanded[1]

\* The position of a path in the file list.
FileIndex(path) == CHOOSE i \in 1..Len(file_data) : file_data[i].path = path

\* The field names a key of d whose set is the largest and, among the keys
\* with a set of that size, the one that comes first in the file list.
NamesFirstMaximal(field, d) ==
  d # <<>> =>
    /\ field.named
    /\ \E i \in 1..Len(d) :
         /\ d[i].k = field.file
         /\ Cardinality(d[i].v) = field.count
         /\ \A j \in 1..Len(d) : Cardinality(d[j].v) <= field.count
         /\ \A j \in 1..Len(d) :
              Cardinality(d[j].v) = field.count => FileIndex(d[i].k) <= FileIndex(d[j].k)

\* C25: in the metrics max_dependencies names a file of maximal out-degree
\* and max_dependents a file of maximal in-degree, each the first of the
\* files of that degree in file-list order.
C25_MaxDegreeFirstInFileOrder ==
  MetricsReturned =>
    /\ NamesFirstMaximal(metrics.max_dependencies, dependency_graph)
    /\ NamesFirstMaximal(metrics.max_dependents, reverse_dependency_graph)

\* Two files are joined by an edge of the forward or of the reverse
\* adjacency, in either direction.
Adjacent(x, y) ==
  \/ y \in GetSet(dependency_graph, x) \/ x \in GetSet(dependency_graph, y)
  \/ y \in GetSet(reverse_dependency_graph, x) \/ x \in GetSet(reverse_dependency_graph, y)

\* The weakly connected component of a file in the undirected graph over
\* the file list: the files a chain of adjacent files leads to.
WeakComponentOf(f) ==
  {g \in FilePaths(file_data) :
     \/ g = f
     \/ \E chain \in ListsOf(FilePaths(file_data), Len(file_data)) :
          /\ chain[1] = f
          /\ chain[Len(chain)] = g
          /\ \A k \in 1..(Len(chain) - 1) : Adjacent(chain[k], chain[k + 1])}

WeakComponents == {WeakComponentOf(f) : f \in FilePaths(file_data)}

\* The components _calculate_dependency_metrics has collected when it
\* returns.
CollectedComponents ==
  ConnectedComponents(file_data, dependency_graph, reverse_dependency_graph, 1, {})

\* C26: connected_components is the number of weakly connected components
\* of the file list under the union of forward and reverse edges, single
\* files included, largest_component_size is the size of the largest one,
\* and the components collected are disjoint and cover the file list.
C26_WeakComponents ==
  MetricsReturned =>
    /\ metrics.connected_components = Cardinality(WeakComponents)
    /\ \E c \in WeakComponents :
         /\ metrics.largest_component_size = Cardinality(c)
         /\ \A other \in WeakComponents : Cardinality(other) <= Cardinality(c)
    /\ UNION Range(CollectedComponents) = FilePaths(file_data)
    /\ \A i, j \in 1..Len(CollectedComponents) :
         i # j => CollectedComponents[i] \cap CollectedComponents[j] = {}

\* The directory a value of the module index stands for: the value itself
\* when it is a directory, the directory of the file when it is a file.
LocationOf(value) ==
  IF value \in FilePaths(file_data) THEN Dirname(value) ELSE value

\* What a token of several segments whose first segment is a key of the
\* index should resolve to: the remaining segments taken from the location
\* of the key, when a file of the list is there.
SubmoduleTarget(token) ==
  LET target == Join(LocationOf(module_mapping[SplitHead(token)]), SplitTail(token))
  IN IF target \in FilePaths(file_data) THEN target ELSE NoneVal

\* C27: a _resolve_import call for an absolute token that is not in the
\* module index as a whole, has several segments and a first segment that
\* is a key of the index returns the file the remaining segments lead to
\* from the location of that key (inside the directory when the key maps to
\* a directory), and None when no file of the list is there.
C27_SubmoduleResolution ==
  (/\ resolve_call # NoCall
   /\ ~StartsWith(resolve_call.import_path, <<".">>)
   /\ resolve_call.import_path \notin DOMAIN module_mapping
   /\ SplitCount(resolve_call.import_path) > 1
   /\ SplitHead(resolve_call.import_path) \in DOMAIN module_mapping)
  => resolve_call.result = SubmoduleTarget(resolve_call.import_path)

\* The path is the directory itself or lies below it; everything lies below
\* the top directory ''.
LiesIn(path, dir) ==
  \/ dir = <<>>
  \/ path = dir
  \/ StartsWith(path, dir \o <<"/">>)

\* C28: a _resolve_import call for a relative token that returns a target
\* returns one that lies in the base directory the call walked up to: a
\* module of the same name in an unrelated directory is never returned.
C28_RelativeStaysInBase ==
  (/\ resolve_call # NoCall
   /\ StartsWith(resolve_call.import_path, <<".">>)
   /\ Truthy(resolve_call.result))
  => LiesIn(resolve_call.result, resolve_call.base_dir)

\* The first list is the beginning of the second.
IsPrefix(short, long) ==
  Len(short) <= Len(long) /\ short = Take(long, Len(short))

\* C29: when _ensure_document_size has returned, the UTF-8 size of the
\* sections joined by blank lines is at most max_size, also when sections
\* were removed and the note was appended; until then the sections left are
\* a beginning of the ones the function was entered with, and the function
\* always has a next step.
C29_DocumentFits ==
  /\ pc = "returned" => DocumentSize(generator.document) <= generator.max_size
  /\ pc = "truncating" => IsPrefix(generator.document, generator.at_entry)
  /\ pc \in {"ensure", "truncating"} => ENABLED NextGenerator

\* The nodes of the forward graph: its keys and everything they point at.
Nodes(dg) == {dg[i].k : i \in 1..Len(dg)} \cup UNION {dg[i].v : i \in 1..Len(dg)}

RECURSIVE PendingIn(_)
\* What the running calls have still to do: for each, the neighbours it has
\* not visited and its return.
PendingIn(stack) ==
  IF stack = <<>> THEN 0
  ELSE Cardinality(Head(stack).todo) + 1 + PendingIn(Tail(stack))

RECURSIVE ExpansionCost(_, _)
\* What expanding the given nodes would take: for each, its call, its
\* neighbours and its return.
ExpansionCost(dg, nodes) ==
  IF nodes = {} THEN 0
  ELSE LET n == CHOOSE x \in nodes : TRUE
       IN Cardinality(GetSet(dg, n)) + 2 + ExpansionCost(dg, nodes \ {n})

\* The work the search has left: the keys the outer loop has still to look
\* at, the neighbours and returns of the running calls, and the expansion of
\* every node not yet visited.
SearchWork ==
  (Len(dependency_graph) + 1 - dfs.outer)
  + PendingIn(dfs.stack)
  + ExpansionCost(dependency_graph, Nodes(dependency_graph) \ dfs.visited)

\* A step of the search.
SearchStep ==
  FindCyclesOuter \/ DfsNeighbor \/ DfsReturn \/ FindCyclesReturn("metrics")

\* In every state: no node was expanded twice, the path holds the nodes of
\* the running calls, a search that is not over has a step to take, and a
\* search that is over has left the path empty and no call running.
SearchState ==
  /\ \A i, j \in 1..Len(dfs.expanded) : dfs.expanded[i] = dfs.expanded[j] => i = j
  /\ dfs.visited = {dfs.expanded[i] : i \in 1..Len(dfs.expanded)}
  /\ Len(dfs.path) = Len(dfs.stack)
  /\ \A i \in 1..Len(dfs.path) : dfs.path[i] = dfs.stack[i].node
  /\ pc = "cycles" => ENABLED SearchStep
  /\ StageRank(pc) > StageRank("cycles") =>
       /\ dfs.path = <<>>
       /\ dfs.stack = <<>>
       /\ dfs.outer = Len(dependency_graph) + 1

====
